---- MODULE Spec2Model ----
(***************************************************************************)
(* Verification model of stream-blockify.                                  *)
(*                                                                         *)
(* Components modelled:                                                    *)
(*   - the simple DefaultBufferManager (segment list, no pool)             *)
(*   - DefaultStreamStateManager (five flags)                              *)
(*   - the segment-list StreamBlockify (class extending Stream)            *)
(*   - the Stream-based StreamBlockify with typed errors                   *)
(*   - the Transform StreamBlockify (scratch-buffer design)                *)
(*                                                                         *)
(* An emission pass calls out to listeners at every emit(); the pass is    *)
(* therefore modelled as running from one emit() to the next, and the      *)
(* listener of the event being delivered may call back into the stream.    *)
(***************************************************************************)
EXTENDS Integers, Sequences, FiniteSets, TLC

\* ---------------------------------------------------------------- bounds
\* segment-list and typed-error streams: chunk sizes 1..MaxChunkSize, writes of
\* 0..MaxWriteLen bytes, at most MaxBytes bytes written in all
MaxChunkSize == 2
MaxWriteLen == 2
MaxBytes == 3

\* write/end-only runs of the segment-list stream (round trip)
RT_MaxChunkSize == 4
RT_MaxBytes == 7

\* Transform stream: block sizes 1..T_MaxBlockSize, input chunks of
\* 0..T_MaxChunkLen bytes, at most T_MaxInput bytes in all, padding patterns of
\* 0..T_MaxPadLen bytes
T_MaxBlockSize == 3
T_MaxChunkLen == 3
T_MaxInput == 4
T_MaxPadLen == 2

\* counters of observed events stop at MaxCount
MaxCount == 2

\* stream over a throwing buffer manager: greatest chunk size and number of
\* bytes written
F_MaxChunkSize == 2
F_MaxBytes == 2
MaxThrows == 1

\* buffer manager without a pool: segments held, bytes added between two
\* clear() calls, greatest chunk size asked for
S_MaxSegments == 3
S_MaxBytes == 3
S_MaxChunkSize == 2

\* Duplex stream: greatest chunk size and maxBufferSize, number of bytes
\* written, and the greatest index of a push() that returns false
D_MaxChunkSize == 2
D_MaxBufferSize == 2
D_MaxBytes == 3
D_MaxStop == 1

\* Transform stream with maximumBufferedBlocks: greatest block size, limit of
\* buffered blocks, chunk length, number of bytes written, and index of a
\* block whose push() returns false
BP_MaxBlockSize == 2
BP_MaxBufferedBlocks == 2
BP_MaxChunkLen == 3
BP_MaxInput == 4
BP_MaxStop == 2

\* pooled buffer manager called directly: no pool or one of P_MaxPoolSize bytes, at
\* most P_MaxBytes bytes added between two clear() calls, getChunks sizes up to
\* P_MaxChunkSize
P_MaxPoolSize == 2
P_MaxBytes == 4
P_MaxChunkSize == 3
\* the two managers side by side: bytes added since the last clear(), and the
\* largest size asked of getChunks
B_MaxBytes == 5
B_MaxChunkSize == 2

\* byte values; two values are enough to tell order and position apart
Byte == {0, 1}

\* two distinct Buffer objects exist for every content, so that a caller can
\* pass the same object twice or two equal but distinct objects
Copies == {1, 2}

\* null where a Buffer's bytes are expected (no byte is negative)
NULL == <<-1>>

\* undefined where a Buffer object is expected (end() without an argument)
NoChunk == [bytes |-> <<>>, copy |-> 0]

Min(a, b) == IF a < b THEN a ELSE b

RECURSIVE SeqsUpTo(_)
SeqsUpTo(n) ==
    IF n = 0 THEN {<<>>}
    ELSE LET S == SeqsUpTo(n - 1)
         IN S \cup {Append(s, x) : s \in {t \in S : Len(t) = n - 1}, x \in Byte}

\* the Buffer objects a caller can hand to write(): identity is the record
Buffers ==
    {[bytes |-> d, copy |-> c] : d \in SeqsUpTo(MaxWriteLen) \ {<<>>}, c \in Copies}
    \cup {[bytes |-> <<>>, copy |-> 1]}

RECURSIVE Concat(_)
Concat(ss) == IF ss = <<>> THEN <<>> ELSE Head(ss) \o Concat(Tail(ss))

\* Buffer.alloc(size): a zero-filled buffer
alloc(size) == [i \in 1..size |-> 0]

\* source.copy(target, targetStart, sourceStart, sourceEnd), 0-based offsets
copy(source, target, targetStart, sourceStart, sourceEnd) ==
    LET n == Min(Min(sourceEnd, Len(source)) - sourceStart, Len(target) - targetStart)
    IN [i \in 1..Len(target) |->
          IF i > targetStart /\ i <= targetStart + n
          THEN source[sourceStart + (i - targetStart)]
          ELSE target[i]]

\* buffer.subarray(start)
subarray(bytes, start) == SubSeq(bytes, start + 1, Len(bytes))

\* ------------------------------------------- simple DefaultBufferManager
\* state: [buffers : Seq(Buffer objects), totalLength, offset]
Simple_new == [buffers |-> <<>>, totalLength |-> 0, offset |-> 0]

Simple_addBuffer(b, buffer) ==
    [b EXCEPT !.buffers = Append(@, buffer),
              !.totalLength = @ + Len(buffer.bytes)]

\* variant: the length is reported as 0
Simple_getTotalLength_zero(b) == 0

Simple_getTotalLength(b) == b.totalLength

\* the while loop of createChunk; r = [bm, chunk, chunkOffset, remainingSize]
RECURSIVE Simple_copyLoop(_)
Simple_copyLoop(r) ==
    IF r.remainingSize > 0 /\ Len(r.bm.buffers) > 0
    THEN LET currentBuffer == r.bm.buffers[1].bytes
             availableLength == Len(currentBuffer) - r.bm.offset
             copyLength == Min(availableLength, r.remainingSize)
             chunk1 == copy(currentBuffer, r.chunk, r.chunkOffset,
                            r.bm.offset, r.bm.offset + copyLength)
             offset1 == r.bm.offset + copyLength
             bm1 == IF offset1 >= Len(currentBuffer)
                    THEN [r.bm EXCEPT !.buffers = Tail(@), !.offset = 0]
                    ELSE [r.bm EXCEPT !.offset = offset1]
         IN Simple_copyLoop([bm |-> bm1, chunk |-> chunk1,
                             chunkOffset |-> r.chunkOffset + copyLength,
                             remainingSize |-> r.remainingSize - copyLength])
    ELSE r

\* returns [bm, chunk]; chunk is NULL when there is not enough data
Simple_createChunk(b, size) ==
    IF b.totalLength < size THEN [bm |-> b, chunk |-> NULL]
    ELSE LET r == Simple_copyLoop([bm |-> b, chunk |-> alloc(size),
                                   chunkOffset |-> 0, remainingSize |-> size])
         IN [bm |-> [r.bm EXCEPT !.totalLength = @ - size], chunk |-> r.chunk]

\* the while loop of getChunks; r = [bm, chunks]
RECURSIVE Simple_chunkLoop(_, _)
Simple_chunkLoop(r, size) ==
    IF r.bm.totalLength >= size
    THEN LET c == Simple_createChunk(r.bm, size)
         IN IF c.chunk = NULL THEN r
            ELSE Simple_chunkLoop([bm |-> c.bm, chunks |-> Append(r.chunks, c.chunk)], size)
    ELSE r

\* returns [bm, chunks]
Simple_getChunks(b, size) ==
    IF size <= 0 \/ b.totalLength = 0 THEN [bm |-> b, chunks |-> <<>>]
    ELSE Simple_chunkLoop([bm |-> b, chunks |-> <<>>], size)

Simple_clear(b) == [buffers |-> <<>>, totalLength |-> 0, offset |-> 0]

\* the for..of loop of getRemainingData over buffers[i..]; the start offset is
\* decided by object identity with buffers[0]
RECURSIVE Simple_remainingLoop(_, _, _, _)
Simple_remainingLoop(b, i, outBuffer, outputOffset) ==
    IF i > Len(b.buffers) THEN outBuffer
    ELSE LET buffer == b.buffers[i]
             start == IF buffer = b.buffers[1] THEN b.offset ELSE 0
             length == Len(buffer.bytes) - start
         IN Simple_remainingLoop(b, i + 1,
                copy(buffer.bytes, outBuffer, outputOffset, start, Len(buffer.bytes)),
                outputOffset + length)

\* returns the bytes of the remaining data, or NULL; does not change the store
Simple_getRemainingData(b) ==
    IF b.totalLength = 0 THEN NULL
    ELSE IF Len(b.buffers) = 1
         THEN (IF b.offset # 0 THEN subarray(b.buffers[1].bytes, b.offset)
               ELSE b.buffers[1].bytes)
         ELSE Simple_remainingLoop(b, 1, alloc(b.totalLength), 0)

\* ------------------------------------------- DefaultStreamStateManager
StateManager_new ==
    [paused |-> FALSE, ended |-> FALSE, endEmitted |-> FALSE,
     emitting |-> FALSE, needDrain |-> FALSE]

\* variant: the new state is built from the initial one, not from the current
updateState_fresh(state, key, value) == [StateManager_new EXCEPT ![key] = value]

updateState(state, key, value) == [state EXCEPT ![key] = value]

\* ======================= segment-list StreamBlockify (extends Stream) ====
VARIABLES
    chunkSize,  \* _chunkSize
    bm,         \* _bufferManager: [buffers, totalLength, offset]
    sm,         \* _stateManager: the five flags
    pass,       \* the emission pass on the call stack:
                \*   pc          "idle", or the event a listener is being run for
                \*   chunks      carved blocks the forEach has still to deliver
                \*   needToFlush argument of _emitChunks
                \*   cont        "end" when end(chunk) waits for its write(chunk),
                \*               "resume" when resume() waits for its emitChunks()
    obs,        \* what the listeners have observed:
                \*   nThrown       exceptions thrown by the buffer manager so far
                \*   nBufferError  error events carrying a BufferOperationError
                \*   bufferError   the last of those errors
                \*   data          payloads of the data events, concatenated
                \*   nData, nDrain, nEnd, nError   events seen, counted up to
                \*                 MaxCount
                \*   pausedData    a data event arrived while paused was true
                \*   unowedDrain   a drain event arrived with no write() having
                \*                 returned false since the previous one
                \*   dataAfterEnd  a data event arrived after the end event
                \*   endEarly      the end event arrived while ended was false or
                \*                 the buffer manager held bytes
    written,    \* concatenation of the bytes given to write() calls that did
                \* not throw
    call,       \* what the callers have observed:
                \*   outer      outermost operation called last
                \*   ret        result of the last write(): "true", "false", "throw"
                \*   getChunks  whether that write() reached getChunks
                \*   owed       a write() returned false since the last drain event
                \*   due        owed, as it was when the running or last outermost
                \*              resume() was called
                \*   endPaused  end() was called while the stream was paused
    opts,       \* Transform stream options: blockSize, emitPartial, padding,
                \* blockTransform; for a stream built over an injected buffer
                \* manager, throws: the method of that manager that throws
    tr          \* Transform stream: _buffer, _position, the blocks pushed, and
                \* input (bytes received), flushed, wasReset

vars == <<chunkSize, bm, sm, pass, obs, written, call, opts, tr>>

Pass_idle == [pc |-> "idle", chunks |-> <<>>, needToFlush |-> FALSE, cont |-> "none"]

\* the stream as one value, for the methods below to transform
Cur == [bm |-> bm, sm |-> sm, pass |-> pass, obs |-> obs,
        written |-> written, call |-> call]

Becomes(s) ==
    /\ bm' = s.bm
    /\ sm' = s.sm
    /\ pass' = s.pass
    /\ obs' = s.obs
    /\ written' = s.written
    /\ call' = s.call
    /\ UNCHANGED <<chunkSize, opts, tr>>

\* no error object
NoError == [name |-> "", operation |-> "", message |-> <<>>]

Obs_new ==
    [data |-> <<>>, nData |-> 0, nDrain |-> 0, nEnd |-> 0, nError |-> 0,
     nThrown |-> 0, nBufferError |-> 0, bufferError |-> NoError,
     pausedData |-> FALSE,
     shortData |-> FALSE,       \* a data event did not carry chunkSize bytes
     dataAfterShort |-> FALSE,  \* a data event followed such a data event
     unowedDrain |-> FALSE, dataAfterEnd |-> FALSE, endEarly |-> FALSE]

\* a listener receives the event (type, chunk) from the stream in state s
Observe(o, s, type, chunk) ==
    CASE type = "data" ->
            [o EXCEPT !.data = @ \o chunk,
                      !.nData = Min(@ + 1, MaxCount),
                      !.pausedData = @ \/ s.sm.paused,
                      !.shortData = @ \/ Len(chunk) # chunkSize,
                      !.dataAfterShort = @ \/ o.shortData,
                      !.dataAfterEnd = @ \/ o.nEnd > 0]
      [] type = "drain" ->
            [o EXCEPT !.nDrain = Min(@ + 1, MaxCount),
                      !.unowedDrain = @ \/ ~s.call.owed]
      [] type = "end" ->
            [o EXCEPT !.nEnd = Min(@ + 1, MaxCount),
                      !.endEarly = @ \/ ~s.sm.ended \/ s.bm.totalLength # 0]
      [] type = "error" ->
            [o EXCEPT !.nError = Min(@ + 1, MaxCount)]

\* this.emit(type, chunk): listeners run while pass.pc = at
emit(s, type, chunk, at) ==
    [s EXCEPT !.obs = Observe(@, s, type, chunk),
              !.pass.pc = at,
              !.call.owed = IF type = "drain" THEN FALSE ELSE @,
              !.call.due = IF type = "drain" THEN FALSE ELSE @]

RECURSIVE SL_emitChunks(_, _)

SL_flush(s) == SL_emitChunks(s, TRUE)

\* end(), from setEnded on
SL_endTail(s) == SL_flush([s EXCEPT !.sm = updateState(@, "ended", TRUE)])

\* the finally block of _emitChunks, and the return to the caller
SL_finally(s) ==
    LET s1 == [s EXCEPT !.sm = updateState(@, "emitting", FALSE),
                        !.pass = Pass_idle]
    IN IF s.pass.cont = "end" THEN SL_endTail(s1) ELSE s1

\* variant: the end condition without the test of the buffered length
SL_isEnded_anyLength(s) == s.sm.ended /\ ~s.sm.endEmitted

\* variant: the end condition without the test of the ended flag
SL_isEnded_notEnded(s) == s.bm.totalLength = 0 /\ ~s.sm.endEmitted

SL_isEnded(s) ==
    s.bm.totalLength = 0 /\ s.sm.ended /\ ~s.sm.endEmitted

\* _handleEvents from its second if on
SL_handleEnd(s) ==
    IF SL_isEnded(s)
    THEN emit([s EXCEPT !.sm = updateState(@, "endEmitted", TRUE)], "end", <<>>, "end")
    ELSE SL_finally(s)

\* variant: needDrain is never turned into a drain event
SL_handleEvents_noDrain(s) == SL_handleEnd(s)

SL_handleEvents(s) ==
    IF s.sm.needDrain
    THEN emit([s EXCEPT !.sm = updateState(@, "needDrain", FALSE)], "drain", <<>>, "drain")
    ELSE SL_handleEnd(s)

\* emitRemainingData after its emit('data', remaining)
SL_clearRemaining(s) == SL_handleEvents([s EXCEPT !.bm = Simple_clear(@)])

SL_emitRemainingData(s) ==
    LET remaining == Simple_getRemainingData(s.bm)
    IN IF remaining # NULL THEN emit(s, "data", remaining, "remaining")
       ELSE SL_handleEvents(s)

\* chunks.forEach(chunk => this.emit('data', chunk)), one element at a time
SL_forEach(s) ==
    IF s.pass.chunks # <<>>
    THEN emit([s EXCEPT !.pass.chunks = Tail(@)], "data", Head(s.pass.chunks), "data")
    ELSE IF s.pass.needToFlush THEN SL_emitRemainingData(s)
         ELSE SL_handleEvents(s)

SL_emitFullChunks(s) ==
    LET r == Simple_getChunks(s.bm, chunkSize)
    IN SL_forEach([s EXCEPT !.bm = r.bm, !.pass.chunks = r.chunks,
                            !.call.getChunks = TRUE])

\* variant: _emitChunks without the test of the emitting flag
SL_emitChunks_reentrant(s, needToFlush) ==
    IF s.sm.paused THEN s
    ELSE SL_emitFullChunks([s EXCEPT !.sm = updateState(@, "emitting", TRUE),
                                     !.pass.needToFlush = needToFlush])

SL_emitChunks(s, needToFlush) ==
    IF s.sm.emitting \/ s.sm.paused THEN s
    ELSE SL_emitFullChunks([s EXCEPT !.sm = updateState(@, "emitting", TRUE),
                                     !.pass.needToFlush = needToFlush])

\* write() from its second statement on
SL_buffer(s, chunk) ==
    LET s1 == [s EXCEPT
                 !.bm = IF Len(chunk.bytes) # 0 THEN Simple_addBuffer(@, chunk) ELSE @,
                 !.written = @ \o chunk.bytes,
                 !.call.ret = "true", !.call.getChunks = FALSE]
    IN IF Simple_getTotalLength(s1.bm) >= chunkSize
       THEN IF s1.sm.paused
            THEN [s1 EXCEPT !.sm = updateState(@, "needDrain", TRUE),
                            !.call.ret = "false", !.call.owed = TRUE]
            ELSE SL_emitChunks(s1, FALSE)
       ELSE s1

\* variant: write() without the test of the ended flag
SL_write_afterEnd(s, chunk) == SL_buffer(s, chunk)

SL_write(s, chunk) ==
    IF s.sm.ended
    THEN [s EXCEPT !.call.ret = "throw", !.call.getChunks = FALSE]
    ELSE SL_buffer(s, chunk)

SL_pause(s) == [s EXCEPT !.sm = updateState(@, "paused", TRUE)]

SL_resume(s) == SL_emitChunks([s EXCEPT !.sm = updateState(@, "paused", FALSE)], FALSE)

SL_end(s, chunk) ==
    IF chunk = NoChunk THEN SL_endTail(s)
    ELSE LET s1 == SL_write(s, chunk)
         IN IF s1.call.ret = "throw" THEN s1
            ELSE IF s.pass.pc = "idle" /\ s1.pass.pc # "idle"
                 THEN [s1 EXCEPT !.pass.cont = "end"]
                 ELSE SL_endTail(s1)

\* the listener of the event being delivered returns
SL_listenerReturns(s) ==
    CASE s.pass.pc = "data" -> SL_forEach(s)
      [] s.pass.pc = "remaining" -> SL_clearRemaining(s)
      [] s.pass.pc = "drain" -> SL_handleEnd(s)
      [] s.pass.pc = "end" -> SL_finally(s)

\* ghost bookkeeping on entry of an operation called by the user (pass idle)
\* or by the listener of the event being delivered (pass not idle)
Enter(op) ==
    [Cur EXCEPT !.call.outer = IF pass.pc = "idle" THEN op ELSE @,
                !.call.due = IF pass.pc = "idle" /\ op = "resume" THEN call.owed ELSE @,
                !.call.endPaused = @ \/ (op = "end" /\ sm.paused)]

WriteWithin(chunk, maxBytes) ==
    /\ Len(written) + Len(chunk.bytes) <= maxBytes
    /\ Becomes(SL_write(Enter("write"), chunk))

Write(chunk) == WriteWithin(chunk, MaxBytes)

Pause ==
    /\ TRUE
    /\ Becomes(SL_pause(Enter("pause")))

Resume ==
    /\ TRUE
    /\ Becomes(SL_resume(Enter("resume")))

EndWithin(chunk, maxBytes) ==
    /\ Len(written) + Len(chunk.bytes) <= maxBytes
    /\ Becomes(SL_end(Enter("end"), chunk))

End(chunk) == EndWithin(chunk, MaxBytes)

Flush ==
    /\ TRUE
    /\ Becomes(SL_flush(Enter("flush")))

ListenerReturns ==
    /\ pass.pc # "idle"
    /\ Becomes(SL_listenerReturns(Cur))

\* the Transform stream is not part of these specifications
T_unused == [blockSize |-> 0]

StreamInit(maxChunkSize) ==
    /\ chunkSize \in 1..maxChunkSize
    /\ bm = Simple_new
    /\ sm = StateManager_new
    /\ pass = Pass_idle
    /\ obs = Obs_new
    /\ written = <<>>
    /\ call = [outer |-> "none", ret |-> "none", getChunks |-> FALSE,
               owed |-> FALSE, due |-> FALSE, endPaused |-> FALSE]
    /\ opts = T_unused
    /\ tr = T_unused

Init == StreamInit(MaxChunkSize)

Next ==
    \/ \E chunk \in Buffers : Write(chunk)
    \/ Pause
    \/ Resume
    \/ \E chunk \in Buffers \cup {NoChunk} : End(chunk)
    \/ Flush
    \/ ListenerReturns

Spec == Init /\ [][Next]_vars

\* ---- write() calls followed by one end(): never paused, listeners only return
RT_Init == StreamInit(RT_MaxChunkSize)

RT_Write(chunk) ==
    /\ pass.pc = "idle"
    /\ WriteWithin(chunk, RT_MaxBytes)

RT_End ==
    /\ pass.pc = "idle"
    /\ ~sm.ended
    /\ EndWithin(NoChunk, RT_MaxBytes)

RT_Next ==
    \/ \E chunk \in Buffers : RT_Write(chunk)
    \/ RT_End
    \/ ListenerReturns

SpecRoundTrip == RT_Init /\ [][RT_Next]_vars

\* =====================================================================
\* StreamBlockify extending Stream with typed errors (src/unnamed/part_013)
\* over the buffer manager of src/unnamed/part_012
\* =====================================================================

Indexed_addBuffer(b, buffer) == Simple_addBuffer(b, buffer)

Indexed_getTotalLength(b) == b.totalLength

\* isValidChunkOperation, then the while loop over createChunk / copyToChunk
Indexed_getChunks(b, size) ==
    IF ~(size > 0 /\ b.totalLength > 0) THEN [bm |-> b, chunks |-> <<>>]
    ELSE Simple_chunkLoop([bm |-> b, chunks |-> <<>>], size)

Indexed_clear(b) == [buffers |-> <<>>, totalLength |-> 0, offset |-> 0]

Indexed_getSingleBufferRemaining(b) ==
    IF b.offset # 0 THEN subarray(b.buffers[1].bytes, b.offset) ELSE b.buffers[1].bytes

\* the for loop of getMultiBufferRemaining: the start offset is decided by the
\* index of the buffer
RECURSIVE Indexed_remainingLoop(_, _, _, _)
Indexed_remainingLoop(b, i, result, outputOffset) ==
    IF i > Len(b.buffers) THEN result
    ELSE LET buffer == b.buffers[i].bytes
             start == IF i = 1 THEN b.offset ELSE 0
             length == Len(buffer) - start
         IN Indexed_remainingLoop(b, i + 1,
                copy(buffer, result, outputOffset, start, Len(buffer)),
                outputOffset + length)

Indexed_getMultiBufferRemaining(b) ==
    Indexed_remainingLoop(b, 1, alloc(b.totalLength), 0)

Indexed_getRemainingData(b) ==
    IF b.totalLength = 0 THEN NULL
    ELSE IF Len(b.buffers) = 1 THEN Indexed_getSingleBufferRemaining(b)
         ELSE Indexed_getMultiBufferRemaining(b)

\* this.emit('error', ...): the error listener records the event and returns
emitError(s) == [s EXCEPT !.obs = Observe(@, s, "error", <<>>)]

\* StreamBlockifyError.formatMessage: a message is the sequence of its parts
formatMessage(message, details) ==
    IF details # <<>> THEN message \o <<": ">> \o details ELSE message

BufferOperationError(operation, details) ==
    [name |-> "BufferOperationError", operation |-> operation,
     message |-> formatMessage(<<"Buffer operation '", operation, "' failed">>, details)]

\* the exception of a buffer manager injected through the constructor
TestError == [name |-> "Error", operation |-> "", message |-> <<"Test error">>]

\* the injected buffer manager throws in the method op
Mock_throws(op) == opts # T_unused /\ opts.throws = op

\* the buffer manager throws: the exception leaves the method
Mock_throw(s) == [s EXCEPT !.obs.nThrown = Min(@ + 1, MaxCount)]

Typed_handleBufferError(s, operation, error) ==
    LET bufferError == BufferOperationError(operation, error.message)
    IN [emitError(s) EXCEPT !.obs.nBufferError = Min(@ + 1, MaxCount),
                            !.obs.bufferError = bufferError]

\* emitDrainIfNeeded called by resume() after emitChunks() has returned: the
\* drain listener runs with no pass on the stack
Typed_emitDrainIfNeeded(s) ==
    IF s.sm.needDrain
    THEN [s EXCEPT !.sm = updateState(@, "needDrain", FALSE),
                   !.obs = Observe(@, s, "drain", <<>>),
                   !.call.owed = FALSE, !.call.due = FALSE]
    ELSE s

RECURSIVE Typed_emitChunks(_, _)

Typed_flush(s) == Typed_emitChunks(s, TRUE)

\* end(), from setEnded on
Typed_endTail(s) == Typed_flush([s EXCEPT !.sm = updateState(@, "ended", TRUE)])

\* variant: the finally block leaves the emitting flag alone
Typed_finally_keeps(s) ==
    LET s1 == [s EXCEPT !.pass = Pass_idle]
    IN CASE s.pass.cont = "end" -> Typed_endTail(s1)
         [] s.pass.cont = "resume" -> Typed_emitDrainIfNeeded(s1)
         [] OTHER -> s1

\* the finally block of emitChunks, and the return to end(chunk) or resume()
Typed_finally(s) ==
    LET s1 == [s EXCEPT !.sm = updateState(@, "emitting", FALSE),
                        !.pass = Pass_idle]
    IN CASE s.pass.cont = "end" -> Typed_endTail(s1)
         [] s.pass.cont = "resume" -> Typed_emitDrainIfNeeded(s1)
         [] OTHER -> s1

Typed_isStreamEnded(s) ==
    Indexed_getTotalLength(s.bm) = 0 /\ s.sm.ended /\ ~s.sm.endEmitted

\* emitChunks without its catch block: the exception reaches the catch block
\* of write(), which emits it and throws it again
Typed_catch_rethrow(s, error) ==
    [Typed_finally(Typed_handleBufferError(s, "write", error)) EXCEPT !.call.ret = "throw"]

\* the catch block of emitChunks, then its finally block
Typed_catch(s, error) == Typed_finally(Typed_handleBufferError(s, "emitChunks", error))

Typed_emitEndIfNeeded(s) ==
    IF Typed_isStreamEnded(s)
    THEN emit([s EXCEPT !.sm = updateState(@, "endEmitted", TRUE)], "end", <<>>, "end")
    ELSE Typed_finally(s)

\* emitDrainIfNeeded, then emitEndIfNeeded
Typed_handleStreamEvents(s) ==
    IF s.sm.needDrain
    THEN emit([s EXCEPT !.sm = updateState(@, "needDrain", FALSE)], "drain", <<>>, "drain")
    ELSE Typed_emitEndIfNeeded(s)

\* emitRemainingData after its emit('data', remaining)
Typed_clearRemaining(s) == Typed_handleStreamEvents([s EXCEPT !.bm = Indexed_clear(@)])

Typed_emitRemainingData(s) ==
    IF Mock_throws("getRemainingData")
    THEN Typed_catch(Mock_throw(s), BufferOperationError("emitRemainingData", TestError.message))
    ELSE LET remaining == Indexed_getRemainingData(s.bm)
         IN IF remaining # NULL THEN emit(s, "data", remaining, "remaining")
            ELSE Typed_handleStreamEvents(s)

\* chunks.forEach(chunk => this.emit('data', chunk)), one element at a time
Typed_forEach(s) ==
    IF s.pass.chunks # <<>>
    THEN emit([s EXCEPT !.pass.chunks = Tail(@)], "data", Head(s.pass.chunks), "data")
    ELSE IF s.pass.needToFlush THEN Typed_emitRemainingData(s)
         ELSE Typed_handleStreamEvents(s)

Typed_emitFullChunks(s) ==
    IF Mock_throws("getChunks")
    THEN Typed_catch(Mock_throw([s EXCEPT !.call.getChunks = TRUE]),
                     BufferOperationError("emitFullChunks", TestError.message))
    ELSE LET r == Indexed_getChunks(s.bm, chunkSize)
         IN Typed_forEach([s EXCEPT !.bm = r.bm, !.pass.chunks = r.chunks,
                                    !.call.getChunks = TRUE])

\* shouldSkipEmission, then the try block
Typed_emitChunks(s, needToFlush) ==
    IF s.sm.emitting \/ s.sm.paused THEN s
    ELSE Typed_emitFullChunks([s EXCEPT !.sm = updateState(@, "emitting", TRUE),
                                        !.pass.needToFlush = needToFlush])

Typed_processChunk(s, chunk) ==
    LET s1 == [s EXCEPT !.bm = IF Len(chunk.bytes) # 0
                               THEN Indexed_addBuffer(@, chunk) ELSE @]
    IN IF Indexed_getTotalLength(s1.bm) >= chunkSize
       THEN IF s1.sm.paused
            THEN [s1 EXCEPT !.sm = updateState(@, "needDrain", TRUE)]
            ELSE Typed_emitChunks(s1, FALSE)
       ELSE s1

\* validateWriteOperation, the paused test, processChunk; written records the
\* bytes of every call that did not throw
Typed_write(s, chunk) ==
    IF s.sm.ended
    THEN [emitError(s) EXCEPT !.call.ret = "throw", !.call.getChunks = FALSE]
    ELSE LET s1 == [s EXCEPT !.written = @ \o chunk.bytes, !.call.getChunks = FALSE]
         IN IF s1.sm.paused
            THEN [s1 EXCEPT !.sm = updateState(@, "needDrain", TRUE),
                            !.call.ret = "false", !.call.owed = TRUE]
            ELSE Typed_processChunk([s1 EXCEPT !.call.ret = "true"], chunk)

Typed_pause(s) == [s EXCEPT !.sm = updateState(@, "paused", TRUE)]

Typed_resume(s) ==
    LET s1 == Typed_emitChunks([s EXCEPT !.sm = updateState(@, "paused", FALSE)], FALSE)
    IN IF s.pass.pc = "idle" /\ s1.pass.pc # "idle"
       THEN [s1 EXCEPT !.pass.cont = "resume"]
       ELSE Typed_emitDrainIfNeeded(s1)

Typed_end(s, chunk) ==
    IF chunk = NoChunk THEN Typed_endTail(s)
    ELSE LET s1 == Typed_write(s, chunk)
         IN IF s1.call.ret = "throw" THEN s1
            ELSE IF s.pass.pc = "idle" /\ s1.pass.pc # "idle"
                 THEN [s1 EXCEPT !.pass.cont = "end"]
                 ELSE Typed_endTail(s1)

\* the listener of the event being delivered returns
Typed_listenerReturns(s) ==
    CASE s.pass.pc = "data" -> Typed_forEach(s)
      [] s.pass.pc = "remaining" -> Typed_clearRemaining(s)
      [] s.pass.pc = "drain" -> Typed_emitEndIfNeeded(s)
      [] s.pass.pc = "end" -> Typed_finally(s)

TypedWrite(chunk) ==
    /\ Len(written) + Len(chunk.bytes) <= MaxBytes
    /\ Becomes(Typed_write(Enter("write"), chunk))

TypedPause ==
    /\ TRUE
    /\ Becomes(Typed_pause(Enter("pause")))

TypedResume ==
    /\ TRUE
    /\ Becomes(Typed_resume(Enter("resume")))

TypedEnd(chunk) ==
    /\ Len(written) + Len(chunk.bytes) <= MaxBytes
    /\ Becomes(Typed_end(Enter("end"), chunk))

TypedFlush ==
    /\ TRUE
    /\ Becomes(Typed_flush(Enter("flush")))

TypedListenerReturns ==
    /\ pass.pc # "idle"
    /\ Becomes(Typed_listenerReturns(Cur))

Typed_Next ==
    \/ \E chunk \in Buffers : TypedWrite(chunk)
    \/ TypedPause
    \/ TypedResume
    \/ \E chunk \in Buffers \cup {NoChunk} : TypedEnd(chunk)
    \/ TypedFlush
    \/ TypedListenerReturns

SpecTyped == Init /\ [][Typed_Next]_vars

\* ---- the same stream over a buffer manager one method of which throws
F_Buffers == {buffer \in Buffers : buffer.copy = 1}

FaultWrite(chunk) ==
    /\ Len(written) + Len(chunk.bytes) <= F_MaxBytes
    /\ Becomes(Typed_write(Enter("write"), chunk))

FaultEnd(chunk) ==
    /\ Len(written) + Len(chunk.bytes) <= F_MaxBytes
    /\ Becomes(Typed_end(Enter("end"), chunk))

\* construction over a buffer manager that throws in one of the methods ops
Fault_InitWith(ops) ==
    /\ chunkSize \in 1..F_MaxChunkSize
    /\ bm = Simple_new
    /\ sm = StateManager_new
    /\ pass = Pass_idle
    /\ obs = Obs_new
    /\ written = <<>>
    /\ call = [outer |-> "none", ret |-> "none", getChunks |-> FALSE,
               owed |-> FALSE, due |-> FALSE, endPaused |-> FALSE]
    /\ opts \in {[throws |-> op] : op \in ops}
    /\ tr = T_unused

Fault_Init == Fault_InitWith({"getChunks", "getRemainingData"})

Fault_Next ==
    \/ \E chunk \in F_Buffers : FaultWrite(chunk)
    \/ TypedPause
    \/ TypedResume
    \/ \E chunk \in F_Buffers \cup {NoChunk} : FaultEnd(chunk)
    \/ TypedFlush
    \/ TypedListenerReturns

SpecTypedFault == Fault_Init /\ [][Fault_Next]_vars

\* ---- the same stream with listeners that may throw
\* the listener of the event being delivered throws: inside emitFullChunks and
\* emitRemainingData the exception is wrapped on its way to the catch block of
\* emitChunks
Typed_listenerThrows(s) ==
    CASE s.pass.pc = "data" ->
            Typed_catch(s, BufferOperationError("emitFullChunks", TestError.message))
      [] s.pass.pc = "remaining" ->
            Typed_catch(s, BufferOperationError("emitRemainingData", TestError.message))
      [] OTHER -> Typed_catch(s, TestError)

\* a thrown data event of the remaining bytes leaves them in the store, to be
\* emitted again: the number of error events is capped
TypedListenerThrows ==
    /\ pass.pc # "idle"
    /\ obs.nError < MaxThrows
    /\ Becomes(Typed_listenerThrows(Cur))

\* the buffer manager throws in no method, or in one
Throw_Init == Fault_InitWith({"none", "getChunks", "getRemainingData"})

\* the chunks written: of every length, all of one byte value
Throw_Buffers == {buffer \in F_Buffers : \A i \in 1..Len(buffer.bytes) : buffer.bytes[i] = 0}

Throw_Next ==
    \/ \E chunk \in Throw_Buffers : FaultWrite(chunk)
    \/ TypedPause
    \/ TypedResume
    \/ \E chunk \in Throw_Buffers \cup {NoChunk} : FaultEnd(chunk)
    \/ TypedFlush
    \/ TypedListenerReturns
    \/ TypedListenerThrows

SpecTypedThrow == Throw_Init /\ [][Throw_Next]_vars

\* =====================================================================
\* StreamBlockify extending Duplex, with metrics and maxBufferSize
\* (src/unnamed/part_013, first class).  In its specification
\*   opts    is the configuration: maxBufferSize
\*   tr      holds metrics, the state of Node's Writable side (writable:
\*           "open", "ending" once end() was accepted and _final is due,
\*           "finished", "errored" once a write callback received an error)
\*           and cleaned, the events whose one-shot cleanup listener has run
\*   obs     is the readable side: data are the bytes pushed, nEnd counts
\*           push(null)
\*   written are the bytes handed to write() and end()
\*   call    is the last call: op, callback ("ok" or "error", what _write
\*           gave to its callback), added (_write gave the chunk to addBuffer)
\* push() returns what Node decides: stopAt = k makes the k-th push of a
\* for..of loop return false, stopAt = 0 makes every push return true.
\* =====================================================================
D_new ==
    [metrics |-> [totalChunksProcessed |-> 0, totalBytesProcessed |-> 0,
                  currentBufferSize |-> 0],
     writable |-> "open", cleaned |-> {}]

D_Cur == [bm |-> bm, sm |-> sm, obs |-> obs, written |-> written, call |-> call,
          tr |-> tr]

D_Becomes(s) ==
    /\ bm' = s.bm
    /\ sm' = s.sm
    /\ obs' = s.obs
    /\ written' = s.written
    /\ call' = s.call
    /\ tr' = s.tr
    /\ UNCHANGED <<chunkSize, opts, pass>>

\* a call of op by the user or by Node
D_Enter(op) == [D_Cur EXCEPT !.call = [op |-> op, callback |-> "none", added |-> FALSE]]

\* cleanup(), the listener registered once for 'end' and once for 'error'
D_cleanup(s, event) ==
    IF event \in s.tr.cleaned THEN s
    ELSE [s EXCEPT !.bm = Indexed_clear(@), !.tr.cleaned = @ \cup {event}]

\* this.push(chunk)
D_push(s, chunk) ==
    [s EXCEPT !.obs.data = @ \o chunk, !.obs.nData = Min(@ + 1, MaxCount)]

\* the for..of loop of emitFullChunks over the chunks carved
D_pushChunks(s, r, stopAt) ==
    LET stops == stopAt \in 1..Len(r.chunks)
        n == IF stops THEN stopAt ELSE Len(r.chunks)
    IN [s EXCEPT !.bm = r.bm,
                 !.obs.data = @ \o Concat(SubSeq(r.chunks, 1, n)),
                 !.obs.nData = Min(@ + n, MaxCount),
                 !.tr.metrics.totalChunksProcessed = @ + n,
                 !.sm = IF stops THEN updateState(@, "paused", TRUE) ELSE @]

D_emitFullChunks(s, stopAt) ==
    D_pushChunks(s, Indexed_getChunks(s.bm, chunkSize), stopAt)

\* emitRemainingData after getRemainingData; the 'incompleteChunk' event
\* changes no state
D_pushRemaining(s, remaining) ==
    IF remaining # NULL /\ Len(remaining) > 0
    THEN [D_push(s, remaining) EXCEPT
              !.bm = Indexed_clear(@),
              !.tr.metrics.totalChunksProcessed =
                  IF Len(remaining) < chunkSize THEN @ ELSE @ + 1]
    ELSE s

\* if (isEnded()) this.push(null)
D_pushNull(s) ==
    IF s.sm.ended THEN [s EXCEPT !.obs.nEnd = Min(@ + 1, MaxCount)] ELSE s

D_emitRemainingData(s) ==
    D_pushNull(D_pushRemaining(s, Indexed_getRemainingData(s.bm)))

D_emitDrainIfNeeded(s) ==
    IF s.sm.needDrain
    THEN [s EXCEPT !.sm = updateState(@, "needDrain", FALSE),
                   !.obs.nDrain = Min(@ + 1, MaxCount)]
    ELSE s

D_emitEndIfNeeded(s) ==
    IF Typed_isStreamEnded(s)
    THEN [s EXCEPT !.sm = updateState(@, "endEmitted", TRUE)]
    ELSE s

D_handleStreamEvents(s) == D_emitEndIfNeeded(D_emitDrainIfNeeded(s))

\* emitting is set for the time of the call and cleared in the finally block
D_emitChunks(s, needToFlush, stopAt) ==
    IF s.sm.emitting \/ s.sm.paused THEN s
    ELSE IF needToFlush
         THEN D_handleStreamEvents(D_emitRemainingData(D_emitFullChunks(s, stopAt)))
         ELSE D_handleStreamEvents(D_emitFullChunks(s, stopAt))

\* processChunk after addBuffer
D_emitIfFull(s, stopAt) ==
    IF Indexed_getTotalLength(s.bm) >= chunkSize
    THEN IF s.sm.paused
         THEN [s EXCEPT !.sm = updateState(@, "needDrain", TRUE)]
         ELSE D_emitChunks(s, FALSE, stopAt)
    ELSE s

D_processChunk(s, chunk, stopAt) ==
    D_emitIfFull(IF Len(chunk.bytes) # 0
                 THEN [s EXCEPT !.bm = Indexed_addBuffer(@, chunk), !.call.added = TRUE]
                 ELSE s,
                 stopAt)

\* _write after processChunk: the metrics, then callback()
D_updateMetrics(s, chunk) ==
    [s EXCEPT !.tr.metrics.totalBytesProcessed = @ + Len(chunk.bytes),
              !.tr.metrics.currentBufferSize = Indexed_getTotalLength(s.bm),
              !.call.callback = "ok"]

\* _write; callback(error) makes Node destroy the stream
D_write(s, chunk, stopAt) ==
    IF s.sm.ended
    THEN [D_cleanup([s EXCEPT !.obs.nError = Min(@ + 1, MaxCount)], "error")
             EXCEPT !.call.callback = "error", !.tr.writable = "errored"]
    ELSE IF Indexed_getTotalLength(s.bm) + Len(chunk.bytes) > opts.maxBufferSize
         THEN [s EXCEPT !.sm = updateState(@, "needDrain", TRUE),
                        !.call.callback = "ok"]
         ELSE D_updateMetrics(D_processChunk(s, chunk, stopAt), chunk)

\* super.end(chunk) writes the chunk and, unless the write failed, schedules
\* _final
D_superEnd(s, chunk, stopAt) ==
    [(IF chunk = NoChunk THEN s ELSE D_write(s, chunk, stopAt))
        EXCEPT !.tr.writable = IF @ = "errored" THEN @ ELSE "ending"]

\* end(chunk): setEnded(true), then super.end(chunk)
D_end(s, chunk, stopAt) ==
    D_superEnd([s EXCEPT !.sm = updateState(@, "ended", TRUE)], chunk, stopAt)

\* write(chunk) on a stream Node still accepts writes for
DuplexWrite(chunk, stopAt) ==
    /\ tr.writable = "open"
    /\ Len(written) + Len(chunk.bytes) <= D_MaxBytes
    /\ D_Becomes(D_write([D_Enter("write") EXCEPT !.written = @ \o chunk.bytes],
                         chunk, stopAt))

\* _read, called by Node when the consumer asks for data
DuplexRead(stopAt) ==
    /\ tr.writable # "errored"
    /\ D_Becomes(D_emitChunks([D_Enter("read") EXCEPT !.sm = updateState(@, "paused", FALSE)],
                              FALSE, stopAt))

DuplexPause ==
    /\ TRUE
    /\ D_Becomes([D_Enter("pause") EXCEPT !.sm = updateState(@, "paused", TRUE)])

DuplexResume(stopAt) ==
    /\ TRUE
    /\ D_Becomes(D_emitDrainIfNeeded(
           D_emitChunks([D_Enter("resume") EXCEPT !.sm = updateState(@, "paused", FALSE)],
                        FALSE, stopAt)))

DuplexEnd(chunk, stopAt) ==
    /\ tr.writable = "open"
    /\ Len(written) + Len(chunk.bytes) <= D_MaxBytes
    /\ D_Becomes(D_end([D_Enter("end") EXCEPT !.written = @ \o chunk.bytes],
                       chunk, stopAt))

\* _final, called by Node once the writes before end() are done
DuplexFinal(stopAt) ==
    /\ tr.writable = "ending"
    /\ D_Becomes(D_emitChunks([D_Enter("final") EXCEPT !.tr.writable = "finished"],
                              TRUE, stopAt))

DuplexFlush(stopAt) ==
    /\ TRUE
    /\ D_Becomes(D_emitChunks(D_Enter("flush"), TRUE, stopAt))

\* Node emits 'end' once the consumer has read up to the null pushed
DuplexEndEvent ==
    /\ obs.nEnd > 0
    /\ "end" \notin tr.cleaned
    /\ D_Becomes(D_cleanup(D_Enter("endEvent"), "end"))

DuplexGetMetrics ==
    /\ TRUE
    /\ D_Becomes([D_Enter("getMetrics") EXCEPT
                     !.tr.metrics.currentBufferSize = Indexed_getTotalLength(bm)])

Duplex_Init ==
    /\ chunkSize \in 1..D_MaxChunkSize
    /\ opts \in {[maxBufferSize |-> n] : n \in 1..D_MaxBufferSize}
    /\ bm = Simple_new
    /\ sm = StateManager_new
    /\ pass = Pass_idle
    /\ obs = Obs_new
    /\ written = <<>>
    /\ call = [op |-> "none", callback |-> "none", added |-> FALSE]
    /\ tr = D_new

Duplex_Next ==
    \/ \E chunk \in F_Buffers, stopAt \in 0..D_MaxStop : DuplexWrite(chunk, stopAt)
    \/ \E stopAt \in 0..D_MaxStop : DuplexRead(stopAt)
    \/ DuplexPause
    \/ \E stopAt \in 0..D_MaxStop : DuplexResume(stopAt)
    \/ \E chunk \in F_Buffers \cup {NoChunk}, stopAt \in 0..D_MaxStop : DuplexEnd(chunk, stopAt)
    \/ \E stopAt \in 0..D_MaxStop : DuplexFinal(stopAt)
    \/ \E stopAt \in 0..D_MaxStop : DuplexFlush(stopAt)
    \/ DuplexEndEvent
    \/ DuplexGetMetrics

SpecDuplex == Duplex_Init /\ [][Duplex_Next]_vars

\* =====================================================================
\* The buffer manager without a pool on its own
\* (src/src/default-buffer-manager.ts 268-346)
\* =====================================================================

\* a caller of the manager; written is the concatenation of the segments added
\* since the last clear(), call the last operation with its argument and result
SimpleAddBuffer(buffer) ==
    /\ Len(bm.buffers) < S_MaxSegments
    /\ Len(written) + Len(buffer.bytes) <= S_MaxBytes
    /\ bm' = Simple_addBuffer(bm, buffer)
    /\ written' = written \o buffer.bytes
    /\ call' = [op |-> "addBuffer", size |-> 0, chunks |-> <<>>]
    /\ UNCHANGED <<chunkSize, sm, pass, obs, opts, tr>>

SimpleGetChunks(size) ==
    LET r == Simple_getChunks(bm, size)
    IN /\ bm' = r.bm
       /\ call' = [op |-> "getChunks", size |-> size, chunks |-> r.chunks]
       /\ UNCHANGED <<chunkSize, sm, pass, obs, written, opts, tr>>

SimpleClear ==
    /\ bm' = Simple_clear(bm)
    /\ written' = <<>>
    /\ call' = [op |-> "clear", size |-> 0, chunks |-> <<>>]
    /\ UNCHANGED <<chunkSize, sm, pass, obs, opts, tr>>

Simple_Init ==
    /\ bm = Simple_new
    /\ written = <<>>
    /\ call = [op |-> "none", size |-> 0, chunks |-> <<>>]
    /\ chunkSize = 0
    /\ sm = StateManager_new
    /\ pass = Pass_idle
    /\ obs = Obs_new
    /\ opts = T_unused
    /\ tr = T_unused

Simple_Next ==
    \/ \E buffer \in Buffers : SimpleAddBuffer(buffer)
    \/ \E size \in 0..S_MaxChunkSize : SimpleGetChunks(size)
    \/ SimpleClear

SpecSimple == Simple_Init /\ [][Simple_Next]_vars

\* =====================================================================
\* DefaultStreamStateManager on its own
\* (src/src/default-stream-state-manager.ts)
\* =====================================================================

\* the query methods and the field each of them reads
StateManager_get(state, getter) ==
    CASE getter = "isPaused" -> state.paused
      [] getter = "isEmitting" -> state.emitting
      [] getter = "isEnded" -> state.ended
      [] getter = "isEndEmitted" -> state.endEmitted
      [] getter = "needsDrain" -> state.needDrain

\* the mutating methods
StateManager_set(state, setter, value) ==
    CASE setter = "setPaused" -> updateState(state, "paused", value)
      [] setter = "setEmitting" -> updateState(state, "emitting", value)
      [] setter = "setEnded" -> updateState(state, "ended", value)
      [] setter = "setEndEmitted" -> updateState(state, "endEmitted", value)
      [] setter = "setNeedDrain" -> updateState(state, "needDrain", value)

Setters == {"setPaused", "setEmitting", "setEnded", "setEndEmitted", "setNeedDrain"}

\* the query method that belongs to a mutating method
GetterOf(setter) ==
    CASE setter = "setPaused" -> "isPaused"
      [] setter = "setEmitting" -> "isEmitting"
      [] setter = "setEnded" -> "isEnded"
      [] setter = "setEndEmitted" -> "isEndEmitted"
      [] setter = "setNeedDrain" -> "needsDrain"

\* a caller sets one flag; call keeps the call and, per setter, the value it
\* was last called with (none yet: the initial false)
SetState(setter, value) ==
    /\ sm' = StateManager_set(sm, setter, value)
    /\ call' = [setter |-> setter, value |-> value,
                last |-> [call.last EXCEPT ![setter] = value]]
    /\ UNCHANGED <<chunkSize, bm, pass, obs, written, opts, tr>>

StateManager_Init ==
    /\ sm = StateManager_new
    /\ call = [setter |-> "none", value |-> FALSE, last |-> [setter \in Setters |-> FALSE]]
    /\ chunkSize = 0
    /\ bm = Simple_new
    /\ pass = Pass_idle
    /\ obs = Obs_new
    /\ written = <<>>
    /\ opts = T_unused
    /\ tr = T_unused

StateManager_Next == \E setter \in Setters, value \in BOOLEAN : SetState(setter, value)

SpecStateManager == StateManager_Init /\ [][StateManager_Next]_vars

\* =====================================================================
\* Transform StreamBlockify with one reused block buffer
\* (src/src/stream-blockify.ts)
\* =====================================================================

\* blockTransform of the options: absent, one that returns the block with every
\* byte changed, one that throws for a block whose first byte is 1
BlockTransforms == {"none", "invert", "throws"}

\* options.padding: a number, or a Buffer holding a pattern (possibly empty)
Paddings ==
    {[isBuffer |-> FALSE, number |-> v, pattern |-> <<>>] : v \in Byte}
        \cup {[isBuffer |-> TRUE, number |-> 0, pattern |-> p] : p \in SeqsUpTo(T_MaxPadLen)}

\* onBlock of the options: absent, one that returns, one that throws for a
\* block whose first byte is 1
OnBlocks == {"none", "returns", "throws"}

\* padding is left out of the options when emitPartial is not false
Options ==
    {o \in [blockSize : 1..T_MaxBlockSize, emitPartial : BOOLEAN,
            padding : Paddings, blockTransform : BlockTransforms,
            onBlock : OnBlocks] :
        o.emitPartial => o.padding = [isBuffer |-> FALSE, number |-> 0, pattern |-> <<>>]}

\* Buffer.allocUnsafe(size): memory of any content
allocUnsafe(size) == [1..size -> Byte]

\* buf.fill(value, start, end) with a number
fill(bytes, value, start, end) ==
    [i \in 1..Len(bytes) |-> IF start < i /\ i <= end THEN value % 256 ELSE bytes[i]]

\* constructor, with the memory handed out for _buffer
T_new(options, memory) ==
    [buffer |-> memory, position |-> 0,
     pushed |-> <<>>,       \* blocks given to push(), in order: their bytes
                            \* at the push
     viewed |-> <<>>,       \* for each of them, whether the Buffer pushed is a
                            \* view of the block buffer
     onBlocks |-> <<>>,     \* calls of onBlock, in order: the block handed over
                            \* with the bytes it had, the number of blocks
                            \* pushed before the call, whether the callback
                            \* threw, and whether the Buffer is a view of the
                            \* block buffer
     input |-> <<>>,        \* bytes received by _transform, in order
     received |-> 0,        \* bytes received since construction or the last
                            \* reset()
     errors |-> 0,          \* error events emitted
     flushed |-> FALSE,     \* _flush has run
     wasReset |-> FALSE,    \* reset() has been called
     threw |-> FALSE,       \* blockTransform threw during the running or last
                            \* _transform call
     afterThrow |-> FALSE]  \* a later block of a chunk reached _emitBlock after
                            \* blockTransform threw for a block of that chunk

\* variant: reset() leaves the position where it is
T_reset_keepsPosition(t) == [t EXCEPT !.wasReset = TRUE, !.received = 0]

T_reset(t) == [t EXCEPT !.position = 0, !.wasReset = TRUE, !.received = 0]

getPosition(t) == t.position

\* same tells whether the Buffer returned is the argument itself
T_blockTransform(o, block) ==
    IF o.blockTransform = "invert"
    THEN [threw |-> FALSE, block |-> [i \in 1..Len(block) |-> 1 - block[i]],
          same |-> FALSE]
    ELSE [threw |-> block[1] = 1, block |-> block, same |-> TRUE]

\* variant: the block is used as it is, a view of the block buffer
T_from_same(block) == [bytes |-> block, view |-> TRUE]

\* Buffer.from(block), block being the block buffer or a subarray of it: a new
\* Buffer with a copy of the bytes
T_from(block) == [bytes |-> block, view |-> FALSE]

\* _applyBlockTransform: the transform gets a copy of the block
T_applyBlockTransform(o, block) ==
    LET arg == T_from(block)
        r == T_blockTransform(o, arg.bytes)
    IN [threw |-> r.threw, block |-> r.block, view |-> r.same /\ arg.view]

T_handleEmitBlockError(t) ==
    [t EXCEPT !.errors = Min(@ + 1, MaxCount)]

T_onBlockThrows(o, block) == o.onBlock = "throws" /\ block[1] = 1

\* this._onBlock?.(transformedBlock)
T_onBlock(t, o, block, view) ==
    IF o.onBlock = "none" THEN t
    ELSE [t EXCEPT !.onBlocks = Append(@, [block |-> block,
                                            pushedBefore |-> Len(t.pushed),
                                            threw |-> T_onBlockThrows(o, block),
                                            view |-> view])]

T_push(t, block, view) ==
    [t EXCEPT !.pushed = Append(@, block), !.viewed = Append(@, view)]

\* variant: the block is pushed before onBlock sees it
T_emitBlock_pushFirst(t, o, block) ==
    LET r == IF o.blockTransform # "none"
             THEN T_applyBlockTransform(o, block)
             ELSE LET c == T_from(block)
                  IN [threw |-> FALSE, block |-> c.bytes, view |-> c.view]
        t1 == [t EXCEPT !.afterThrow = @ \/ t.threw]
    IN IF r.threw
       THEN T_handleEmitBlockError([t1 EXCEPT !.threw = TRUE])
       ELSE IF T_onBlockThrows(o, r.block)
       THEN T_handleEmitBlockError(
                T_onBlock(T_push(t1, r.block, r.view), o, r.block, r.view))
       ELSE T_onBlock(T_push(t1, r.block, r.view), o, r.block, r.view)

T_emitBlock(t, o, block) ==
    LET r == IF o.blockTransform # "none"
             THEN T_applyBlockTransform(o, block)
             ELSE LET c == T_from(block)
                  IN [threw |-> FALSE, block |-> c.bytes, view |-> c.view]
        t1 == [t EXCEPT !.afterThrow = @ \/ t.threw]
    IN IF r.threw
       THEN T_handleEmitBlockError([t1 EXCEPT !.threw = TRUE])
       ELSE IF T_onBlockThrows(o, r.block)
       THEN T_handleEmitBlockError(T_onBlock(t1, o, r.block, r.view))
       ELSE T_push(T_onBlock(t1, o, r.block, r.view), r.block, r.view)

RECURSIVE T_processLoop(_, _, _, _)
T_processLoop(t, o, buffer, offset) ==
    IF offset < Len(buffer)
    THEN LET bytesToCopy == Min(o.blockSize - t.position, Len(buffer) - offset)
             t1 == [t EXCEPT !.buffer = copy(buffer, @, t.position, offset, offset + bytesToCopy),
                             !.position = @ + bytesToCopy]
             t2 == IF t1.position = o.blockSize
                   THEN [T_emitBlock(t1, o, t1.buffer) EXCEPT !.position = 0]
                   ELSE t1
         IN T_processLoop(t2, o, buffer, offset + bytesToCopy)
    ELSE t

T_processChunk(t, o, buffer) == T_processLoop(t, o, buffer, 0)

T_transform(t, o, chunk) ==
    T_processChunk([t EXCEPT !.input = @ \o chunk, !.received = @ + Len(chunk),
                             !.threw = FALSE], o, chunk)

\* variant: the partial block is the whole block buffer
T_emitPartialBlock_whole(t, o) == T_emitBlock(t, o, t.buffer)

T_emitPartialBlock(t, o) == T_emitBlock(t, o, SubSeq(t.buffer, 1, t.position))

\* the for loop of _applyPadding: an index outside the pattern reads undefined,
\* stored as 0; with an empty pattern paddingOffset becomes NaN
RECURSIVE T_padLoop(_, _, _, _, _)
T_padLoop(buffer, pattern, i, paddingOffset, blockSize) ==
    IF i < blockSize
    THEN LET value == IF paddingOffset >= 0 /\ paddingOffset < Len(pattern)
                      THEN pattern[paddingOffset + 1] ELSE 0
             next == IF Len(pattern) = 0 \/ paddingOffset < 0
                     THEN -1 ELSE (paddingOffset + 1) % Len(pattern)
         IN T_padLoop([buffer EXCEPT ![i + 1] = value], pattern, i + 1, next, blockSize)
    ELSE buffer

\* variant: the pattern is indexed by the position in the block, not by the
\* distance from where the padding starts
T_applyPadding_blockIndex(t, o) ==
    IF o.padding.isBuffer
    THEN [t EXCEPT !.buffer = T_padLoop(@, o.padding.pattern, t.position,
                                        IF Len(o.padding.pattern) = 0 THEN 0
                                        ELSE t.position % Len(o.padding.pattern),
                                        o.blockSize)]
    ELSE [t EXCEPT !.buffer = fill(@, o.padding.number, t.position, o.blockSize)]

T_applyPadding(t, o) ==
    IF o.padding.isBuffer
    THEN [t EXCEPT !.buffer = T_padLoop(@, o.padding.pattern, t.position, 0, o.blockSize)]
    ELSE [t EXCEPT !.buffer = fill(@, o.padding.number, t.position, o.blockSize)]

T_emitPaddedBlock(t, o) ==
    LET t1 == T_applyPadding(t, o) IN T_emitBlock(t1, o, t1.buffer)

\* variant: the flush pads and pushes whatever the position is
T_flush_always(t, o) == [T_emitPaddedBlock(t, o) EXCEPT !.flushed = TRUE]

T_flush(t, o) ==
    LET t0 == [t EXCEPT !.threw = FALSE]
        t1 == IF t0.position <= 0 THEN t0
              ELSE IF o.emitPartial THEN T_emitPartialBlock(t0, o)
              ELSE T_emitPaddedBlock(t0, o)
    IN [t1 EXCEPT !.flushed = TRUE]

\* ---- actions: the Writable side calls _transform per chunk and _flush once
Transform(chunk) ==
    /\ ~tr.flushed
    /\ Len(tr.input) + Len(chunk) <= T_MaxInput
    /\ tr' = T_transform(tr, opts, chunk)
    /\ UNCHANGED <<chunkSize, bm, sm, pass, obs, written, call, opts>>

FlushTransform ==
    /\ ~tr.flushed
    /\ tr' = T_flush(tr, opts)
    /\ UNCHANGED <<chunkSize, bm, sm, pass, obs, written, call, opts>>

Reset ==
    /\ tr' = T_reset(tr)
    /\ UNCHANGED <<chunkSize, bm, sm, pass, obs, written, call, opts>>

\* construction with an onBlock option of the given kinds
T_InitWith(onBlocks) ==
    /\ opts \in {o \in Options : o.onBlock \in onBlocks}
    /\ \E safeAllocation \in BOOLEAN :
         tr \in {T_new(opts, memory) :
                    memory \in IF safeAllocation THEN {alloc(opts.blockSize)}
                               ELSE allocUnsafe(opts.blockSize)}
    /\ chunkSize = 0
    /\ bm = Simple_new
    /\ sm = StateManager_new
    /\ pass = Pass_idle
    /\ obs = Obs_new
    /\ written = <<>>
    /\ call = [outer |-> "none", ret |-> "none", getChunks |-> FALSE,
               owed |-> FALSE, due |-> FALSE, endPaused |-> FALSE]

T_Next ==
    \/ \E chunk \in SeqsUpTo(T_MaxChunkLen) \ {<<>>} : Transform(chunk)
    \/ FlushTransform
    \/ Reset

\* streams constructed without onBlock
T_Init == T_InitWith({"none"})

SpecTransform == T_Init /\ [][T_Next]_vars

\* streams constructed with onBlock
OnBlock_Init == T_InitWith({"returns", "throws"})

SpecOnBlock == OnBlock_Init /\ [][T_Next]_vars

\* ---- the constructor's check of options.blockSize
\* options.blockSize as the JavaScript value handed in: undefined, or a number
\* counted in halves (halves = 3 is 1.5, halves = 4 is 2)
BlockSizeValues ==
    {[defined |-> FALSE, halves |-> 0]}
        \cup {[defined |-> TRUE, halves |-> h] : h \in -2..2 * T_MaxBlockSize}

\* Number.isInteger(value)
isInteger(value) == value.defined /\ value.halves % 2 = 0

\* variant: fractions pass the check
T_invalidBlockSize_fractions(blockSize) ==
    \/ ~blockSize.defined \/ blockSize.halves = 0
    \/ blockSize.halves <= 0

\* !options.blockSize || options.blockSize <= 0 || !Number.isInteger(options.blockSize)
T_invalidBlockSize(blockSize) ==
    \/ ~blockSize.defined \/ blockSize.halves = 0
    \/ blockSize.halves <= 0
    \/ ~isInteger(blockSize)

\* what a failed construction leaves behind: no instance
NoInstance == [instance |-> FALSE]

\* new StreamBlockify(options): the thrown error, or the instance
T_constructor(blockSize, options, memory) ==
    IF T_invalidBlockSize(blockSize)
    THEN [threw |-> "BlockifyError", instance |-> NoInstance]
    ELSE [threw |-> "none", instance |-> T_new(options, memory)]

Construct_Init ==
    /\ \E blockSize \in BlockSizeValues, rest \in {o \in Options : o.onBlock = "none"},
          safeAllocation \in BOOLEAN :
         LET options == [rest EXCEPT !.blockSize = blockSize.halves \div 2]
             size == IF options.blockSize > 0 THEN options.blockSize ELSE 0
         IN \E memory \in IF safeAllocation THEN {alloc(size)} ELSE allocUnsafe(size) :
              LET r == T_constructor(blockSize, options, memory)
              IN /\ opts = options
                 /\ tr = r.instance
                 /\ call = [op |-> "new", blockSize |-> blockSize, threw |-> r.threw,
                            position |-> IF r.threw = "none" THEN getPosition(r.instance)
                                         ELSE -1]
    /\ chunkSize = 0
    /\ bm = Simple_new
    /\ sm = StateManager_new
    /\ pass = Pass_idle
    /\ obs = Obs_new
    /\ written = <<>>

\* the stream's operations exist on a constructed instance only
Construct_Next ==
    \/ \E chunk \in SeqsUpTo(T_MaxChunkLen) \ {<<>>} : call.threw = "none" /\ Transform(chunk)
    \/ call.threw = "none" /\ FlushTransform
    \/ call.threw = "none" /\ Reset

SpecConstruct == Construct_Init /\ [][Construct_Next]_vars

\* =====================================================================
\* StreamBlockify extending Transform with maximumBufferedBlocks
\* (src/unnamed/part_014).  In its specification
\*   opts  is the options: blockSize, maximumBufferedBlocks, blockTransform;
\*         emitPartial and padding keep their defaults
\*   tr    is the stream:
\*     filled    _buffer[0 .. _position): the bytes of the block being filled
\*     bufferedBlocksCount
\*     pushed    the bytes pushed
\*     ticks     the callbacks given to process.nextTick by _emitBlock that
\*               have not run yet
\*     deferred  the remainingChunk of the listener registered with
\*               once('drain'), or NULL
\*     inflight  _transform was called and its callback has not been invoked
\*     callbacks invocations of _transform callbacks, counted up to MaxCount
\*     errors    error events, counted up to MaxCount
\*     input     the bytes given to _transform by Node
\*     canContinue  what the last _emitBlock returned
\*     flushed   _flush was called
\* Node calls _transform for one chunk at a time, and _flush after the last
\* callback.  The block numbered stopAt in a call has its push() return false.
\* =====================================================================
BP_new ==
    [filled |-> <<>>, bufferedBlocksCount |-> 0, pushed |-> <<>>, ticks |-> 0,
     deferred |-> NULL, inflight |-> FALSE, callbacks |-> 0, errors |-> 0,
     input |-> <<>>, canContinue |-> TRUE, flushed |-> FALSE]

\* _emitBlock(block) when push() would return canContinue
BP_emitBlock(t, block, canContinue) ==
    IF opts.blockTransform # "none" /\ T_blockTransform(opts, block).threw
    THEN [t EXCEPT !.errors = Min(@ + 1, MaxCount), !.canContinue = FALSE]
    ELSE IF ~canContinue /\ opts.maximumBufferedBlocks > 0
         THEN [t EXCEPT !.pushed = @ \o block,
                        !.bufferedBlocksCount = @ + 1,
                        !.ticks = @ + 1,
                        !.canContinue = canContinue]
         ELSE [t EXCEPT !.pushed = @ \o block, !.canContinue = canContinue]

RECURSIVE BP_loop(_, _, _, _, _)

\* _transform after _emitBlock has returned
BP_afterBlock(t, buffer, offset, n, stopAt) ==
    IF ~t.canContinue /\ opts.maximumBufferedBlocks > 0 /\ offset < Len(buffer)
    THEN [t EXCEPT !.filled = <<>>, !.deferred = subarray(buffer, offset)]
    ELSE BP_loop([t EXCEPT !.filled = <<>>], buffer, offset, n, stopAt)

\* the while loop of _transform from offset on, n blocks emitted so far
BP_loop(t, buffer, offset, n, stopAt) ==
    IF offset >= Len(buffer)
    THEN [t EXCEPT !.callbacks = Min(@ + 1, MaxCount), !.inflight = FALSE]
    ELSE IF opts.maximumBufferedBlocks > 0
            /\ t.bufferedBlocksCount >= opts.maximumBufferedBlocks
         THEN [t EXCEPT !.deferred = subarray(buffer, offset)]
         ELSE LET bytesToCopy == Min(opts.blockSize - Len(t.filled), Len(buffer) - offset)
                  block == t.filled \o SubSeq(buffer, offset + 1, offset + bytesToCopy)
              IN IF Len(block) = opts.blockSize
                 THEN BP_afterBlock(BP_emitBlock(t, block, n + 1 # stopAt),
                                    buffer, offset + bytesToCopy, n + 1, stopAt)
                 ELSE BP_loop([t EXCEPT !.filled = block], buffer,
                              offset + bytesToCopy, n, stopAt)

\* Node hands the next chunk to _transform
BPTransform(chunk, stopAt) ==
    /\ ~tr.inflight
    /\ ~tr.flushed
    /\ Len(tr.input) + Len(chunk) <= BP_MaxInput
    /\ tr' = BP_loop([tr EXCEPT !.inflight = TRUE, !.input = @ \o chunk],
                     chunk, 0, 0, stopAt)
    /\ UNCHANGED <<chunkSize, bm, sm, pass, obs, written, call, opts>>

\* a callback given to process.nextTick by _emitBlock runs: the count goes
\* down and 'drain' is emitted, which runs the one-shot listener
BPDrainTick(stopAt) ==
    /\ tr.ticks > 0
    /\ tr' = IF tr.deferred = NULL
             THEN [tr EXCEPT !.ticks = @ - 1, !.bufferedBlocksCount = @ - 1]
             ELSE BP_loop([tr EXCEPT !.ticks = @ - 1, !.bufferedBlocksCount = @ - 1,
                                     !.deferred = NULL],
                          tr.deferred, 0, 0, stopAt)
    /\ UNCHANGED <<chunkSize, bm, sm, pass, obs, written, call, opts>>

BPReset ==
    /\ TRUE
    /\ tr' = [tr EXCEPT !.filled = <<>>, !.bufferedBlocksCount = 0]
    /\ UNCHANGED <<chunkSize, bm, sm, pass, obs, written, call, opts>>

\* _flush, called by Node once every callback has been invoked
BPFlush(canContinue) ==
    /\ ~tr.inflight
    /\ ~tr.flushed
    /\ tr' = IF Len(tr.filled) > 0
             THEN [BP_emitBlock(tr, tr.filled, canContinue) EXCEPT !.flushed = TRUE]
             ELSE [tr EXCEPT !.flushed = TRUE]
    /\ UNCHANGED <<chunkSize, bm, sm, pass, obs, written, call, opts>>

BP_Init ==
    /\ opts \in [blockSize : 1..BP_MaxBlockSize,
                 maximumBufferedBlocks : 0..BP_MaxBufferedBlocks,
                 blockTransform : {"none", "throws"}]
    /\ tr = BP_new
    /\ chunkSize = 0
    /\ bm = Simple_new
    /\ sm = StateManager_new
    /\ pass = Pass_idle
    /\ obs = Obs_new
    /\ written = <<>>
    /\ call = [outer |-> "none", ret |-> "none", getChunks |-> FALSE,
               owed |-> FALSE, due |-> FALSE, endPaused |-> FALSE]

BP_Next ==
    \/ \E chunk \in SeqsUpTo(BP_MaxChunkLen) \ {<<>>}, stopAt \in 0..BP_MaxStop :
          BPTransform(chunk, stopAt)
    \/ \E stopAt \in 0..BP_MaxStop : BPDrainTick(stopAt)
    \/ BPReset
    \/ \E canContinue \in BOOLEAN : BPFlush(canContinue)

SpecBackpressure == BP_Init /\ [][BP_Next]_vars

\* =====================================================================
\* DefaultBufferManager with a buffer pool
\* (src/src/default-buffer-manager.ts, lines 8-264), called directly
\* =====================================================================

\* identity of the slice of the pool made by consolidateBuffers, and of a
\* Buffer object created inside the manager (allocUnsafe, subarray)
PoolSlice == 0
Allocated == 3

MAX_BUFFER_COUNT == 1000

\* null where a Buffer object is expected
NullBuffer == [bytes |-> NULL, copy |-> Allocated]

\* constructor(options): the pool memory is pool.buffer, <<>> when there is none
Pooled_new(poolSize, memory) ==
    [buffers |-> <<>>, totalLength |-> 0, currentOffset |-> 0,
     pool |-> IF poolSize > 0 THEN [buffer |-> memory, size |-> poolSize]
              ELSE [buffer |-> <<>>, size |-> 0]]

\* the bytes seen through a Buffer object: a slice of the pool shows the pool
\* memory, whatever was there when the slice was made
Pooled_bytes(pool, buffer) ==
    IF buffer.copy = PoolSlice THEN SubSeq(pool, 1, Len(buffer.bytes)) ELSE buffer.bytes

\* the copies of consolidateBuffers, buffers[i..] into result at offset
RECURSIVE Pooled_consolidateLoop(_, _, _, _, _)
Pooled_consolidateLoop(b, shouldUsePool, result, i, offset) ==
    IF i > Len(b.buffers) THEN result
    ELSE LET source == Pooled_bytes(IF shouldUsePool THEN result ELSE b.pool.buffer,
                                    b.buffers[i])
             start == IF i = 1 THEN b.currentOffset ELSE 0
         IN Pooled_consolidateLoop(b, shouldUsePool,
                copy(source, result, offset, start, Len(source)),
                i + 1, offset + Len(source) - start)

\* the memory of Buffer.allocUnsafe(totalLength) is overwritten in full
Pooled_consolidateBuffers(b) ==
    IF Len(b.buffers) <= 1 THEN b
    ELSE LET shouldUsePool == b.pool.size > 0 /\ b.totalLength <= b.pool.size
             result == Pooled_consolidateLoop(b, shouldUsePool,
                          IF shouldUsePool THEN b.pool.buffer ELSE alloc(b.totalLength),
                          1, 0)
         IN IF shouldUsePool
            THEN [b EXCEPT !.buffers = <<[bytes |-> alloc(b.totalLength), copy |-> PoolSlice]>>,
                           !.pool.buffer = result,
                           !.currentOffset = 0]
            ELSE [b EXCEPT !.buffers = <<[bytes |-> result, copy |-> Allocated]>>,
                           !.currentOffset = 0]

Pooled_addBuffer(b, buffer) ==
    IF Len(buffer.bytes) = 0 THEN b
    ELSE LET b1 == [b EXCEPT !.buffers = Append(@, buffer),
                             !.totalLength = @ + Len(buffer.bytes)]
         IN IF Len(b1.buffers) > MAX_BUFFER_COUNT THEN Pooled_consolidateBuffers(b1)
            ELSE b1

Pooled_getTotalLength(b) == b.totalLength

Pooled_isValidChunkOperation(b, size) == size > 0 /\ b.totalLength > 0

\* variant: any held byte is taken to be enough
Pooled_hasEnoughDataForChunk_any(b, size) == b.totalLength > 0

Pooled_hasEnoughDataForChunk(b, size) == b.totalLength >= size

\* the while loop of createChunk with copyToChunk inlined;
\* r = [bm, chunk, chunkOffset, remainingSize]
RECURSIVE Pooled_copyLoop(_)
Pooled_copyLoop(r) ==
    IF r.remainingSize > 0 /\ Len(r.bm.buffers) > 0
    THEN LET currentBuffer == Pooled_bytes(r.bm.pool.buffer, r.bm.buffers[1])
             availableLength == Len(currentBuffer) - r.bm.currentOffset
             copyLength == Min(availableLength, r.remainingSize)
             chunk1 == copy(currentBuffer, r.chunk, r.chunkOffset,
                            r.bm.currentOffset, r.bm.currentOffset + copyLength)
             offset1 == r.bm.currentOffset + copyLength
             bm1 == IF offset1 >= Len(currentBuffer)
                    THEN [r.bm EXCEPT !.buffers = Tail(@), !.currentOffset = 0]
                    ELSE [r.bm EXCEPT !.currentOffset = offset1]
         IN Pooled_copyLoop([bm |-> bm1, chunk |-> chunk1,
                             chunkOffset |-> r.chunkOffset + copyLength,
                             remainingSize |-> r.remainingSize - copyLength])
    ELSE r

\* returns [bm, chunk]: chunk is a new Buffer object, NullBuffer without enough data
Pooled_createChunk(b, size) ==
    IF ~Pooled_hasEnoughDataForChunk(b, size) THEN [bm |-> b, chunk |-> NullBuffer]
    ELSE LET r == Pooled_copyLoop([bm |-> b, chunk |-> alloc(size),
                                   chunkOffset |-> 0, remainingSize |-> size])
         IN [bm |-> [r.bm EXCEPT !.totalLength = @ - size],
             chunk |-> [bytes |-> r.chunk, copy |-> Allocated]]

\* the while loop of getChunks; r = [bm, chunks]
RECURSIVE Pooled_chunkLoop(_, _)
Pooled_chunkLoop(r, size) ==
    IF Pooled_hasEnoughDataForChunk(r.bm, size)
    THEN LET c == Pooled_createChunk(r.bm, size)
         IN IF c.chunk = NullBuffer THEN r
            ELSE Pooled_chunkLoop([bm |-> c.bm, chunks |-> Append(r.chunks, c.chunk)], size)
    ELSE r

\* returns [bm, chunks, threw]; threw: a BufferOperationError('getChunks', ...)
Pooled_getChunks(b, chunkSize_) ==
    IF chunkSize_ <= 0 THEN [bm |-> b, chunks |-> <<>>, threw |-> TRUE]
    ELSE IF ~Pooled_isValidChunkOperation(b, chunkSize_)
         THEN [bm |-> b, chunks |-> <<>>, threw |-> FALSE]
         ELSE LET r == Pooled_chunkLoop([bm |-> b, chunks |-> <<>>], chunkSize_)
              IN [bm |-> r.bm, chunks |-> r.chunks, threw |-> FALSE]

\* variant: clear() leaves the consumed offset as it was
Pooled_clear_keepsOffset(b) == [b EXCEPT !.buffers = <<>>, !.totalLength = 0]

Pooled_clear(b) == [b EXCEPT !.buffers = <<>>, !.totalLength = 0, !.currentOffset = 0]

\* variant: the consumed offset of the head segment is ignored
Pooled_getSingleBufferRemaining_whole(b) ==
    [bytes |-> Pooled_bytes(b.pool.buffer, b.buffers[1]), copy |-> b.buffers[1].copy]

\* the Buffer object returned, with the bytes it shows at the return
Pooled_getSingleBufferRemaining(b) ==
    LET buffer == b.buffers[1]
    IN IF b.currentOffset # 0
       THEN [bytes |-> subarray(Pooled_bytes(b.pool.buffer, buffer), b.currentOffset),
             copy |-> Allocated]
       ELSE [bytes |-> Pooled_bytes(b.pool.buffer, buffer), copy |-> buffer.copy]

\* returns [bm, data]; data is NullBuffer when nothing is held
Pooled_getRemainingData(b) ==
    IF b.totalLength = 0 THEN [bm |-> b, data |-> NullBuffer]
    ELSE IF Len(b.buffers) = 1
         THEN [bm |-> b, data |-> Pooled_getSingleBufferRemaining(b)]
         ELSE LET b1 == Pooled_consolidateBuffers(b)
              IN [bm |-> b1, data |-> Pooled_getSingleBufferRemaining(b1)]

\* ---- a caller of the manager. In this specification
\*   written  is the concatenation of the segments added since the last clear()
\*   call     is [op, size, chunks, data, threw, returned]: the last operation
\*            called, its argument, its results, and the concatenation of the
\*            blocks returned by getChunks since the last clear(); when
\*            keeps is TRUE the caller holds on to the first block returned
\*            by getRemainingData, and kept is that block with the bytes it
\*            showed at the return
PooledCall(op, size, chunks, data, threw, returned) ==
    [op |-> op, size |-> size, chunks |-> chunks, data |-> data, threw |-> threw,
     returned |-> returned,
     keeps |-> call.keeps,
     kept |-> IF call.keeps /\ op = "getRemainingData" /\ call.kept = NullBuffer
              THEN data ELSE call.kept]

\* the manager compares no two segments it is given, so one object per content
\* is passed
P_Buffers == {buffer \in Buffers : buffer.copy = 1}

PooledAddBuffer(buffer) ==
    /\ Len(written) + Len(buffer.bytes) <= P_MaxBytes
    /\ bm' = Pooled_addBuffer(bm, buffer)
    /\ written' = written \o buffer.bytes
    /\ call' = PooledCall("addBuffer", 0, <<>>, NullBuffer, FALSE, call.returned)
    /\ UNCHANGED <<chunkSize, sm, pass, obs, opts, tr>>

PooledGetChunks(size) ==
    LET r == Pooled_getChunks(bm, size)
    IN /\ bm' = r.bm
       /\ call' = PooledCall("getChunks", size, r.chunks, NullBuffer, r.threw,
                     call.returned \o Concat([i \in 1..Len(r.chunks) |-> r.chunks[i].bytes]))
       /\ UNCHANGED <<chunkSize, sm, pass, obs, written, opts, tr>>

PooledGetRemainingData ==
    LET r == Pooled_getRemainingData(bm)
    IN /\ bm' = r.bm
       /\ call' = PooledCall("getRemainingData", 0, <<>>, r.data, FALSE, call.returned)
       /\ UNCHANGED <<chunkSize, sm, pass, obs, written, opts, tr>>

PooledClear ==
    /\ bm' = Pooled_clear(bm)
    /\ written' = <<>>
    /\ call' = PooledCall("clear", 0, <<>>, NullBuffer, FALSE, <<>>)
    /\ UNCHANGED <<chunkSize, sm, pass, obs, opts, tr>>

Pooled_InitWith(keeps) ==
    /\ \E poolSize \in {0, P_MaxPoolSize} :
         bm \in {Pooled_new(poolSize, memory) : memory \in allocUnsafe(poolSize)}
    /\ written = <<>>
    /\ call = [op |-> "none", size |-> 0, chunks |-> <<>>, data |-> NullBuffer,
               threw |-> FALSE, returned |-> <<>>, keeps |-> keeps,
               kept |-> NullBuffer]
    /\ chunkSize = 0
    /\ sm = StateManager_new
    /\ pass = Pass_idle
    /\ obs = Obs_new
    /\ opts = T_unused
    /\ tr = T_unused

Pooled_Init == Pooled_InitWith(FALSE)

Pooled_Next ==
    \/ \E buffer \in P_Buffers : PooledAddBuffer(buffer)
    \/ \E size \in -1..P_MaxChunkSize : PooledGetChunks(size)
    \/ PooledGetRemainingData
    \/ PooledClear

SpecPooled == Pooled_Init /\ [][Pooled_Next]_vars

\* the same calls by a caller that holds on to the first block
\* getRemainingData returned
Keep_Init == Pooled_InitWith(TRUE)

SpecPooledKeep == Keep_Init /\ [][Pooled_Next]_vars

\* ---- the pooled manager and the segment-list manager of the same file, given
\* the same calls. In this specification
\*   bm       is [pooled, simple]: the two managers
\*   written  is the concatenation of the segments added since the last clear()
\*   call     is [op, size, pooled, simple]: the last operation called, its
\*            argument, and what each manager returned: the bytes of every
\*            chunk, the bytes of the remaining data or NULL, or the length
Both_data(data) == IF data = NullBuffer THEN NULL ELSE data.bytes

\* the caller passes Buffer objects of its own: two segments of equal content
\* are either one object twice or two objects
Both_Buffers == {buffer \in Buffers : buffer.bytes # <<>>}

BothAddBuffer(buffer) ==
    /\ Len(written) + Len(buffer.bytes) <= B_MaxBytes
    /\ bm' = [pooled |-> Pooled_addBuffer(bm.pooled, buffer),
              simple |-> Simple_addBuffer(bm.simple, buffer)]
    /\ written' = written \o buffer.bytes
    /\ call' = [op |-> "addBuffer", size |-> 0, pooled |-> <<>>, simple |-> <<>>]
    /\ UNCHANGED <<chunkSize, sm, pass, obs, opts, tr>>

BothGetChunks(size) ==
    LET p == Pooled_getChunks(bm.pooled, size)
        q == Simple_getChunks(bm.simple, size)
    IN /\ bm' = [pooled |-> p.bm, simple |-> q.bm]
       /\ call' = [op |-> "getChunks", size |-> size,
                   pooled |-> [i \in 1..Len(p.chunks) |-> p.chunks[i].bytes],
                   simple |-> q.chunks]
       /\ UNCHANGED <<chunkSize, sm, pass, obs, written, opts, tr>>

BothGetRemainingData ==
    LET p == Pooled_getRemainingData(bm.pooled)
    IN /\ bm' = [pooled |-> p.bm, simple |-> bm.simple]
       /\ call' = [op |-> "getRemainingData", size |-> 0,
                   pooled |-> Both_data(p.data),
                   simple |-> Simple_getRemainingData(bm.simple)]
       /\ UNCHANGED <<chunkSize, sm, pass, obs, written, opts, tr>>

BothClear ==
    /\ bm' = [pooled |-> Pooled_clear(bm.pooled), simple |-> Simple_clear(bm.simple)]
    /\ written' = <<>>
    /\ call' = [op |-> "clear", size |-> 0, pooled |-> <<>>, simple |-> <<>>]
    /\ UNCHANGED <<chunkSize, sm, pass, obs, opts, tr>>

BothGetTotalLength ==
    /\ call' = [op |-> "getTotalLength", size |-> 0,
                pooled |-> <<Pooled_getTotalLength(bm.pooled)>>,
                simple |-> <<Simple_getTotalLength(bm.simple)>>]
    /\ UNCHANGED <<chunkSize, bm, sm, pass, obs, written, opts, tr>>

Both_Init ==
    /\ \E poolSize \in {0, P_MaxPoolSize} :
         bm \in {[pooled |-> Pooled_new(poolSize, memory), simple |-> Simple_new] :
                    memory \in allocUnsafe(poolSize)}
    /\ written = <<>>
    /\ call = [op |-> "none", size |-> 0, pooled |-> <<>>, simple |-> <<>>]
    /\ chunkSize = 0
    /\ sm = StateManager_new
    /\ pass = Pass_idle
    /\ obs = Obs_new
    /\ opts = T_unused
    /\ tr = T_unused

Both_Next ==
    \/ \E buffer \in Both_Buffers : BothAddBuffer(buffer)
    \/ \E size \in 1..B_MaxChunkSize : BothGetChunks(size)
    \/ BothGetRemainingData
    \/ BothClear
    \/ BothGetTotalLength

SpecBoth == Both_Init /\ [][Both_Next]_vars

\* =====================================================================
\* Properties
\* =====================================================================
Idle == pass.pc = "idle"

\* C1: write() calls followed by one end(), never paused, listeners not calling
\* back: the data payloads concatenated in emission order are the written bytes.
C1_RoundTrip == (sm.ended /\ Idle) => obs.data = written

\* the bytes a padded position may hold under the padding of the options
PaddingBytes(o) ==
    IF ~o.padding.isBuffer THEN {o.padding.number}
    ELSE IF o.padding.pattern = <<>> THEN {0}
    ELSE {o.padding.pattern[i] : i \in 1..Len(o.padding.pattern)}

\* C2: Transform stream without blockTransform and without reset(): after the
\* flush the pushed blocks, concatenated in order, are the input bytes,
\* followed by exactly n - (L mod n) padding bytes when emitPartial is false and
\* L is not a multiple of n, and by nothing otherwise.
C2_TransformRoundTrip ==
    (tr.flushed /\ ~tr.wasReset /\ opts.blockTransform = "none") =>
        LET n == opts.blockSize
            L == Len(tr.input)
            out == Concat(tr.pushed)
            pad == IF ~opts.emitPartial /\ L % n # 0 THEN n - (L % n) ELSE 0
        IN /\ Len(out) = L + pad
           /\ SubSeq(out, 1, L) = tr.input
           /\ \A i \in L + 1..L + pad : out[i] \in PaddingBytes(opts)

C2_Witness ==
    /\ tr.flushed /\ ~tr.wasReset /\ opts.blockTransform = "none"
    /\ ~opts.emitPartial /\ opts.padding.isBuffer /\ Len(opts.padding.pattern) = 1
    /\ Len(tr.input) % opts.blockSize = 1 /\ opts.blockSize = T_MaxBlockSize
    /\ Len(tr.pushed) >= 2
    /\ tr.pushed[Len(tr.pushed)][opts.blockSize] = 1

\* C3: Transform stream whose blockTransform does not throw, without reset():
\* before the flush exactly floor(L/n) blocks are pushed, each of n bytes; the
\* flush pushes nothing when L mod n = 0 and otherwise one more block, of
\* L mod n bytes when emitPartial is true and of n bytes when it is false.
C3_BlockCount ==
    (~tr.wasReset /\ opts.blockTransform # "throws") =>
        LET n == opts.blockSize
            L == Len(tr.input)
            full == L \div n
            rem == L % n
        IN /\ Len(tr.pushed) >= full
           /\ \A i \in 1..full : Len(tr.pushed[i]) = n
           /\ ~tr.flushed => Len(tr.pushed) = full
           /\ (tr.flushed /\ rem = 0) => Len(tr.pushed) = full
           /\ (tr.flushed /\ rem # 0) =>
                /\ Len(tr.pushed) = full + 1
                /\ Len(tr.pushed[full + 1]) = IF opts.emitPartial THEN rem ELSE n

C3_Witness ==
    /\ tr.flushed /\ ~tr.wasReset /\ opts.blockTransform = "invert"
    /\ opts.emitPartial /\ opts.blockSize = 2
    /\ Len(tr.pushed) = 2 /\ Len(tr.pushed[2]) = 1

\* C13: Transform stream: once blockTransform has thrown for a block of an input
\* chunk, the error is emitted and no later block of that chunk is transformed
\* or pushed.
C13_StopsAtThrow == (tr.threw => tr.errors >= 1) /\ ~tr.afterThrow

\* C4: the end event is emitted at most once, only while ended is true and the
\* buffer manager holds 0 bytes, and no data event follows it.
C4_EndOnceAndLast ==
    /\ obs.nEnd <= 1
    /\ ~obs.endEarly
    /\ ~obs.dataAfterEnd
    /\ obs.nEnd = 1 => (sm.ended /\ sm.endEmitted /\ bm.totalLength = 0)

C4_Witness ==
    /\ Idle /\ obs.nEnd = 1 /\ obs.nData >= 2 /\ obs.nDrain >= 1

\* C5: end() called while paused, resume() afterwards: when resume() returns,
\* every byte written has been emitted in a data event and end has fired.
C5_ResumeAfterPausedEnd ==
    (Idle /\ call.outer = "resume" /\ sm.ended /\ call.endPaused)
        => (obs.data = written /\ obs.nEnd >= 1)

\* C6: typed-error stream: a write(data) made while paused and not ended adds
\* len(data) to getTotalLength() and fires no data event, and when the following
\* outermost resume() has returned every complete block of the bytes written
\* has been emitted, in order.
C6_PausedWriteBuffers ==
    /\ [][\A chunk \in Buffers :
            (sm.paused /\ ~sm.ended /\ TypedWrite(chunk)) =>
                /\ Indexed_getTotalLength(bm') = Indexed_getTotalLength(bm) + Len(chunk.bytes)
                /\ obs'.nData = obs.nData /\ obs'.data = obs.data]_vars
    /\ [](Idle /\ call.outer = "resume" =>
            /\ obs.data = SubSeq(written, 1, Len(obs.data))
            /\ Len(written) - Len(obs.data) < chunkSize)

\* C7: no data event is delivered while the paused flag is true.
C7_NoDataWhilePaused == ~obs.pausedData

\* C8: a drain event is emitted only if a write() returned false since the
\* previous drain event, and a false write() pending when an outermost resume()
\* is called has got its drain event by the time that resume() returns.
C8_DrainPerEpisode ==
    /\ ~obs.unowedDrain
    /\ (Idle /\ call.outer = "resume") => ~call.due

C8_Witness ==
    /\ Idle /\ call.outer = "resume" /\ obs.nDrain >= 2

\* C9: once ended, every write() throws, leaves the buffer manager and the five
\* flags unchanged and emits no event.
C9_WriteAfterEnd ==
    [][\A chunk \in Buffers :
         (sm.ended /\ Write(chunk))
            => (call'.ret = "throw" /\ bm' = bm /\ sm' = sm /\ obs' = obs)]_vars

C9_Witness ==
    /\ sm.ended /\ call.ret = "throw" /\ sm.paused /\ sm.needDrain
    /\ bm.totalLength > 0

\* C10: a write() on a stream that is not ended returns false exactly when,
\* with the bytes buffered, the stream is paused and holds at least chunkSize
\* bytes; then needDrain is set and nothing is carved. Below chunkSize it
\* returns true without calling getChunks.
C10_WriteResult ==
    [][\A chunk \in Buffers :
         (~sm.ended /\ Write(chunk)) =>
            LET total == bm.totalLength + Len(chunk.bytes)
            IN /\ (call'.ret = "false") <=> (sm.paused /\ total >= chunkSize)
               /\ call'.ret \in {"true", "false"}
               /\ call'.ret = "false" =>
                    /\ sm'.needDrain
                    /\ ~call'.getChunks
                    /\ bm'.totalLength = total
                    /\ obs' = obs
               /\ total < chunkSize => (call'.ret = "true" /\ ~call'.getChunks)]_vars

C10_Witness ==
    /\ call.ret = "false" /\ sm.needDrain /\ sm.paused /\ ~sm.ended
    /\ bm.totalLength >= chunkSize /\ Len(bm.buffers) >= 2

\* C11: end(finalData) with a non-empty finalData hands finalData to the
\* buffer manager and raises no error for it: no error event, and the
\* callback of the write receives no error.
C11_EndWritesFinalData ==
    [][\A chunk \in F_Buffers, stopAt \in 0..D_MaxStop :
          (Len(chunk.bytes) > 0 /\ DuplexEnd(chunk, stopAt)) =>
              /\ call'.added
              /\ call'.callback = "ok"
              /\ obs'.nError = obs.nError]_vars

\* C12: a non-empty chunk handed to _write on a stream that is not ended is
\* given to the buffer manager, whatever the buffered size.
C12_WriteAlwaysBuffers ==
    [][\A chunk \in F_Buffers, stopAt \in 0..D_MaxStop :
          (Len(chunk.bytes) > 0 /\ ~sm.ended /\ DuplexWrite(chunk, stopAt)) =>
              call'.added]_vars

\* C14: an exception of the buffer manager's getChunks or getRemainingData is
\* emitted as one error event per exception, a BufferOperationError of the
\* operation emitChunks whose message names emitFullChunks or
\* emitRemainingData; write() throws only on a stream that has ended, and the
\* emitting flag is cleared when the pass is over.
C14_BufferErrorOnce ==
    /\ obs.nBufferError = obs.nThrown
    /\ obs.nThrown > 0 =>
          obs.bufferError =
              [name |-> "BufferOperationError", operation |-> "emitChunks",
               message |-> <<"Buffer operation '", "emitChunks", "' failed", ": ",
                             "Buffer operation '",
                             IF opts.throws = "getChunks" THEN "emitFullChunks"
                             ELSE "emitRemainingData",
                             "' failed", ": ", "Test error">>]
    /\ call.ret = "throw" => sm.ended
    /\ pass.pc = "idle" => ~sm.emitting

C14_Witness ==
    /\ opts.throws = "getChunks" /\ call.outer = "write" /\ call.getChunks
    /\ call.ret = "true" /\ obs.nThrown = 1 /\ obs.nError = 1
    /\ bm.totalLength >= chunkSize /\ ~sm.ended

\* C15: whenever _transform has deferred the rest of a chunk to a one-shot
\* drain listener, a drain emission is scheduled, so that the continuation
\* runs and the callback of the chunk is invoked; also after a block whose
\* blockTransform threw.
C15_DeferredIsResumed == tr.deferred # NULL => tr.ticks > 0

RemainingBytes(b) ==
    LET data == Pooled_getRemainingData(b).data
    IN IF data = NullBuffer THEN <<>> ELSE data.bytes

C18_ZeroCopy ==
    [][\A size \in 1..P_MaxChunkSize :
         (/\ bm.buffers # <<>> /\ bm.currentOffset = 0
          /\ Len(bm.buffers[1].bytes) = size
          /\ PooledGetChunks(size))
            => (call'.chunks # <<>> /\ call'.chunks[1] = bm.buffers[1])]_vars

\* C19: getRemainingData() leaves the segment sequence, the consumed offset and
\* totalLength as they were, with one segment held and with several.
C19_RemainingKeepsStore ==
    [][PooledGetRemainingData =>
         /\ bm'.buffers = bm.buffers
         /\ bm'.currentOffset = bm.currentOffset
         /\ bm'.totalLength = bm.totalLength]_vars

\* C20: getChunks(size) with size <= 0 returns an empty sequence, raises no
\* error and leaves the store as it was.
C20_NonPositiveSize ==
    [][\A size \in -1..0 :
         PooledGetChunks(size) =>
            (~call'.threw /\ call'.chunks = <<>> /\ bm' = bm)]_vars

\* C21: Transform stream with emitPartial false and no blockTransform: a flush
\* that finds p bytes in the block buffer, 0 < p < n, pushes one block of n
\* bytes whose first p bytes are those bytes and whose byte at each position i
\* of p..n-1 is the padding number, or pattern[(i - p) mod len(pattern)] for a
\* non-empty padding Buffer.
C21_PaddedBlock ==
    [][(/\ ~tr.flushed /\ tr'.flushed
        /\ ~opts.emitPartial /\ opts.blockTransform = "none"
        /\ 0 < tr.position /\ tr.position < opts.blockSize
        /\ opts.padding.isBuffer => opts.padding.pattern # <<>>) =>
          LET p == tr.position
              n == opts.blockSize
              pattern == opts.padding.pattern
          IN /\ Len(tr'.pushed) = Len(tr.pushed) + 1
             /\ LET block == tr'.pushed[Len(tr'.pushed)]
                IN /\ Len(block) = n
                   /\ SubSeq(block, 1, p) = SubSeq(tr.buffer, 1, p)
                   /\ \A i \in p..n - 1 :
                        block[i + 1] = IF opts.padding.isBuffer
                                       THEN pattern[((i - p) % Len(pattern)) + 1]
                                       ELSE opts.padding.number]_vars

C21_Witness ==
    /\ tr.flushed /\ ~tr.wasReset /\ ~opts.emitPartial /\ opts.blockTransform = "none"
    /\ opts.blockSize = 3 /\ opts.padding.isBuffer /\ opts.padding.pattern = <<1, 0>>
    /\ Len(tr.input) = 4
    /\ Len(tr.pushed) = 2 /\ tr.pushed[2] = <<tr.input[4], 1, 0>>

\* C22: constructing the Transform stream with a blockSize that is missing,
\* zero, negative or not an integer throws BlockifyError and leaves no
\* instance; with a positive integer it yields an instance of that block size
\* whose position is 0.
C22_BlockSizeValidated ==
    LET v == call.blockSize
        positiveInteger == v.defined /\ v.halves > 0 /\ v.halves % 2 = 0
    IN /\ ~positiveInteger => (call.threw = "BlockifyError" /\ tr = NoInstance)
       /\ positiveInteger =>
            /\ call.threw = "none" /\ tr # NoInstance
            /\ 2 * opts.blockSize = v.halves
            /\ Len(tr.buffer) = opts.blockSize
            /\ call.position = 0

C22_Witness ==
    /\ call.blockSize = [defined |-> TRUE, halves |-> 3]
    /\ call.threw = "BlockifyError" /\ tr = NoInstance

\* C23: segment-list StreamBlockify: every data event carries exactly chunkSize
\* bytes, except the last data event of the stream.
C23_OnlyLastShort == ~obs.dataAfterShort

\* the onBlock calls that returned
OnBlockReturned == SelectSeq(tr.onBlocks, LAMBDA c : ~c.threw)

\* C24 as stated: Transform stream with onBlock: every pushed block was handed
\* to onBlock exactly once, before its push, as the block that is pushed (the
\* result of blockTransform or the copy), and onBlock is called for no block
\* that is not pushed.
C24_OnBlockPerPush ==
    /\ Len(tr.onBlocks) = Len(tr.pushed)
    /\ \A i \in 1..Len(tr.onBlocks) :
         /\ tr.onBlocks[i].block = tr.pushed[i]
         /\ tr.onBlocks[i].pushedBefore = i - 1

\* C24 amended: every pushed block was handed to onBlock exactly once, before
\* its push, as the block that is pushed; a block handed to onBlock is pushed
\* unless that call of onBlock throws, in which case an error event is emitted
\* and the block is not pushed. While no blockTransform throws and reset() was
\* not called, the k-th call of onBlock gets the k-th full block of the input
\* as blockTransform returns it.
C24_OnBlockPerPushUnlessThrows ==
    /\ Len(OnBlockReturned) = Len(tr.pushed)
    /\ \A i \in 1..Len(OnBlockReturned) :
         /\ OnBlockReturned[i].block = tr.pushed[i]
         /\ OnBlockReturned[i].pushedBefore = i - 1
    /\ \A k \in 1..Len(tr.onBlocks) :
         /\ tr.onBlocks[k].threw => tr.errors >= 1
         /\ tr.onBlocks[k].pushedBefore =
                Len(SelectSeq(SubSeq(tr.onBlocks, 1, k - 1), LAMBDA c : ~c.threw))
         /\ (opts.blockTransform # "throws" /\ ~tr.wasReset
                /\ k <= Len(tr.input) \div opts.blockSize) =>
              LET n == opts.blockSize
              IN tr.onBlocks[k].block =
                    IF opts.blockTransform = "none"
                    THEN SubSeq(tr.input, (k - 1) * n + 1, k * n)
                    ELSE T_applyBlockTransform(
                            opts, SubSeq(tr.input, (k - 1) * n + 1, k * n)).block

C24_Witness ==
    /\ opts.onBlock = "throws" /\ opts.blockTransform = "invert" /\ opts.blockSize = 2
    /\ Len(tr.onBlocks) = 2 /\ tr.onBlocks[1].threw /\ ~tr.onBlocks[2].threw
    /\ tr.pushed = <<tr.onBlocks[2].block>>

\* C25: DefaultStreamStateManager: the five flags start false, every query
\* method returns the value last passed to its setter, and a setter leaves the
\* other four flags as they were.
C25_StateManager ==
    /\ \A setter \in Setters : StateManager_get(sm, GetterOf(setter)) = FALSE
    /\ [](\A setter \in Setters :
            StateManager_get(sm, GetterOf(setter)) = call.last[setter])
    /\ [][\A setter \in Setters \ {call'.setter} :
            StateManager_get(sm', GetterOf(setter))
                = StateManager_get(sm, GetterOf(setter))]_vars

C25_Witness ==
    /\ call.setter = "setEnded" /\ ~call.value
    /\ call.last = [setter \in Setters |-> setter \in {"setPaused", "setNeedDrain"}]
    /\ sm.paused /\ sm.needDrain /\ ~sm.ended /\ ~sm.emitting /\ ~sm.endEmitted

\* C26: StreamBlockify over the state manager: emitting is false whenever no
\* emission pass is on the call stack, that is after every outermost write,
\* resume, flush or end has returned, also when the pass ended with an
\* exception of the buffer manager or of a listener.
C26_EmittingOnlyInPass == pass.pc = "idle" => ~sm.emitting

C26_Witness ==
    /\ pass.pc = "idle" /\ ~sm.emitting
    /\ opts.throws = "none" /\ obs.nThrown = 0
    /\ obs.bufferError.name = "BufferOperationError" /\ obs.nData >= 1

\* C27: segment-list StreamBlockify: one emission pass at a time. A step taken
\* while a listener of the pass is running is either the return of that
\* listener or a call of the listener into the stream, and such a call leaves
\* the running pass as it is, starts no other pass, takes nothing out of the
\* buffer manager (no getChunks, no getRemainingData, no clear) and delivers
\* no data event.
C27_NestedCallsStayOut ==
    [][pass.pc # "idle" =>
        \/ ListenerReturns
        \/ /\ pass' = pass
           /\ sm'.emitting
           /\ obs'.data = obs.data /\ obs'.nData = obs.nData
           /\ call'.getChunks => call.getChunks
           /\ bm'.offset = bm.offset
           /\ \/ bm' = bm
              \/ \E chunk \in Buffers : bm' = Simple_addBuffer(bm, chunk)]_vars

\* the listener of a data event has written a full chunk, which stays buffered
C27_Witness ==
    /\ pass.pc = "data" /\ pass.chunks = <<>> /\ sm.emitting /\ ~sm.paused
    /\ bm.totalLength >= chunkSize
    /\ obs.nData = 1

\* C28: segment-list StreamBlockify: ended and endEmitted, once true, stay
\* true, and endEmitted is never true while ended is false.
C28_EndFlagsMonotonic ==
    /\ [](sm.endEmitted => sm.ended)
    /\ [][/\ sm.ended => sm'.ended
          /\ sm.endEmitted => sm'.endEmitted]_vars

\* after the end event: calls have been made and both flags are still true
C28_Witness ==
    /\ sm.ended /\ sm.endEmitted /\ obs.nEnd = 1 /\ pass.pc = "idle"
    /\ call.outer = "resume" /\ sm.paused = FALSE /\ Len(obs.data) >= 1

C30_OffsetInsideHead ==
    bm.buffers # <<>> => bm.offset < Len(bm.buffers[1].bytes)

\* the bytes a store without a pool holds, in order
HeldBytes(b) ==
    LET all == Concat([i \in 1..Len(b.buffers) |-> b.buffers[i].bytes])
    IN SubSeq(all, b.offset + 1, Len(all))

\* C31: Duplex stream: an emission pass started by _read, resume() or flush()
\* loses no block: the bytes pushed so far followed by the bytes still held
\* are the same sequence before and after the pass, also when push() reports
\* backpressure inside a batch of carved blocks.
C31_NoBlockLost ==
    [][call'.op \in {"read", "resume", "flush"} =>
          obs'.data \o HeldBytes(bm') = obs.data \o HeldBytes(bm)]_vars

\* C32: Transform stream with maximumBufferedBlocks: getBufferedBlocksCount()
\* is never negative and equals the number of pushed blocks whose scheduled
\* drain callback has not run yet.
C32_BufferedBlocksCount ==
    /\ tr.bufferedBlocksCount >= 0
    /\ tr.bufferedBlocksCount = tr.ticks

\* C33: segment-list StreamBlockify: whenever no operation is in progress, the
\* stream is not paused and no call has thrown, the buffer manager holds fewer
\* than chunkSize bytes.
C33_LessThanABlockAtRest ==
    (pass.pc = "idle" /\ ~sm.paused /\ call.ret # "throw" /\ obs.nError = 0) =>
        Simple_getTotalLength(bm) < chunkSize

\* C34: segment-list StreamBlockify: no written byte is discarded: outside the
\* delivery of a flushed remainder (which is held and delivered at once), the
\* bytes delivered in data events, the blocks carved for the running pass and
\* the bytes held by the buffer manager add up to the bytes written, also for
\* bytes written by a data listener while a flush delivers the remainder.
C34_NestedBytesKept ==
    pass.pc # "remaining" =>
        Len(obs.data) + Len(Concat(pass.chunks)) + Simple_getTotalLength(bm)
            = Len(written)

\* C35: segment-list StreamBlockify: when a data listener has called end()
\* during an emission pass, then once the outermost call has returned the
\* buffer manager holds no byte and the end event has fired.
\* (The stream is ended although the last outermost call was a write() that
\* did not throw: end() was called by a listener of that write's pass.)
C35_NestedEndCompletes ==
    (pass.pc = "idle" /\ call.outer = "write" /\ call.ret # "throw"
        /\ sm.ended /\ ~sm.paused) =>
        /\ Simple_getTotalLength(bm) = 0
        /\ obs.nEnd >= 1

\* C36: pooled buffer manager with a pool: the bytes of a block returned by
\* getRemainingData() are not changed by any later addBuffer, getChunks,
\* getRemainingData or clear: the block the caller kept still shows the bytes
\* it showed when it was returned.
C36_ReturnedBlockStable ==
    call.kept # NullBuffer =>
        Pooled_bytes(bm.pool.buffer, call.kept) = call.kept.bytes

\* C37: given the same calls, the pooled manager and the segment-list manager
\* return the same bytes and the same lengths at every call
C37_ManagersAgree == call.pooled = call.simple

\* C38: after every _transform call the position is at least 0 and less than
\* the block size, and it is the number of bytes received since construction or
\* since the last reset(), modulo the block size
C38_PositionAfterTransform ==
    [][tr'.input # tr.input =>
          /\ 0 <= getPosition(tr')
          /\ getPosition(tr') < opts.blockSize
          /\ getPosition(tr') = tr'.received % opts.blockSize]_vars

C38_Witness ==
    /\ tr.wasReset
    /\ ~tr.flushed
    /\ tr.received > opts.blockSize
    /\ tr.received < Len(tr.input)
    /\ getPosition(tr) > 0

\* the bytes a Buffer handed out shows now: those of the block buffer when it
\* is a view of it
Seen(block, view) == IF view THEN SubSeq(tr.buffer, 1, Len(block)) ELSE block

\* C39: every block handed to onBlock or pushed to the consumer keeps the bytes
\* it had when it was handed over, whatever is written into the block buffer
\* afterwards
C39_BlocksOwnStorage ==
    /\ \A i \in 1..Len(tr.pushed) : Seen(tr.pushed[i], tr.viewed[i]) = tr.pushed[i]
    /\ \A k \in 1..Len(tr.onBlocks) :
         Seen(tr.onBlocks[k].block, tr.onBlocks[k].view) = tr.onBlocks[k].block

C39_Witness ==
    /\ tr.flushed
    /\ Len(tr.pushed) >= 2
    /\ Len(tr.onBlocks) >= 2
    /\ Len(tr.pushed[Len(tr.pushed)]) < opts.blockSize
    /\ \E i \in 1..Len(tr.pushed) :
         /\ opts.blockTransform # "none" => tr.onBlocks[i].block = tr.pushed[i]
         /\ SubSeq(tr.buffer, 1, Len(tr.pushed[i])) # tr.pushed[i]

====
